---- MODULE Spec2Model ----
(***************************************************************************)
(* The imageWriter sample: main, sourceThread and sinkThread sharing the   *)
(* frame pool s_frames, the write cursor s_tail, the vector s_frameQueue   *)
(* and the status word s_status, with no lock around any of them.          *)
(***************************************************************************)
EXTENDS Integers, Sequences, FiniteSets, TLC

\* ------------------------------------------------------------ constants
BUFFER_SIZE == 16
BUFFER_SIZE_MASK == BUFFER_SIZE - 1
OVERRUN_MARGIN == 3

STATUS_RUNNING == "STATUS_RUNNING"
STATUS_USER_STOPPED == "STATUS_USER_STOPPED"
STATUS_SINK_OVERRUN == "STATUS_SINK_OVERRUN"
STATUS_ERROR == "STATUS_ERROR"
RUNTIME_STATUS ==
  {STATUS_RUNNING, STATUS_USER_STOPPED, STATUS_SINK_OVERRUN, STATUS_ERROR}

\* ------------------------------------------------------------ bounds
\* Frames the device delivers before it only fails or blocks.
MaxFrames == 15
\* Times one thread may start a queue operation while the other is part-way
\* through one.
MaxRaces == 1
\* The same two budgets for the runs in which sinkThread keeps up (SpecLap).
LapFrames == 18
LapRaces == 16
\* The same two budgets for the fairly scheduled runs (SpecFair).
FairFrames == 3
FairRaces == 1
\* Frames in the fairly scheduled runs that reach every fatal condition
\* (SpecFatal).
FatalFrames == 15
\* Frames in the runs long enough for the output file to be rewound and for
\* the write cursor to wrap (SpecLong).
LongFrames == 34
\* Frames, overlapping queue operations and frames numbered out of sequence
\* in the runs that follow the frame numbers (SpecGaps).
GapFrames == 4
GapRaces == 1
MaxGaps == 2
\* Frame numbers the camera hands to the frame callback, and the number of
\* callbacks in a run (SpecCallback).
MaxFrameNum == 5
MaxCallbacks == 5
\* Threads of the API that may call the frame callback at the same time, and
\* the number of callbacks they make in a run (SpecCallbackThreads).
MaxCbThreads == 2
MaxThreadCallbacks == 4
\* Cameras that can be on the bus, and rebuildCameraSelectCombo callbacks
\* that can be waiting in the GTK idle queue (SpecCameraSelect).
MaxCameras == 2
MaxIdle == 2
\* Callbacks that can be waiting in the GTK idle queue of a tab (SpecTab).
MaxTabIdle == 6
\* Camera features, parameters per feature and GPIOs (SpecConfig).
FeaturesTotal == 4
MaxParams == 2
MaxGpios == 2

\* ------------------------------------------------------------ values
Slots == 0 .. (BUFFER_SIZE - 1)
NoFrame == 0          \* a slot no frame was captured into yet
Torn == -1            \* bytes of two frames mixed by an unsynchronised refill
NoSlot == -1          \* a vector cell never written / a null FRAME_DATA*
NoExit == -1          \* main has not returned

\* x & BUFFER_SIZE_MASK for a U32 x: the low four bits. U32 arithmetic wraps
\* modulo 2^32, a multiple of BUFFER_SIZE, so the low bits of the wrapped value
\* are the residue of the unwrapped one (0 - 1 gives 15).
AndMask(x) == x % (BUFFER_SIZE_MASK + 1)
TailInc(t) == AndMask(t + 1)
\* TailDec that stops at 0 instead of wrapping to BUFFER_SIZE - 1.
TailDec_NoWrap(t) == IF t = 0 THEN 0 ELSE t - 1
TailDec(t) == AndMask(t - 1)

VARIABLES
  s_status,        \* RUNTIME_STATUS
  s_tail,          \* write cursor into s_frames
  s_frames,        \* slot -> the frame its m_image holds
  s_frameQueue,    \* [elems: cell -> slot, finish: number of cells in use]
  streaming,       \* the camera's stream state (PxLSetStreamState)
  delivered,       \* frames the device has delivered (the last frame's id)
  frameBudget,     \* frames the device will deliver in all
  raceBudget,      \* overlapping queue operations the schedule still allows
  pcMain, pcSource, pcSink,
  srcFrame,        \* sourceThread's pFrame
  srcFinish,       \* push_back's read of the vector's end
  snkFrame,        \* sinkThread's pFrame
  snkFinish,       \* erase's reads of the vector's end
  snkTorn,         \* the slot sinkThread is writing was refilled meanwhile
  numFramesInFile, \* sinkThread's counter since the last rewind
  dataFile,        \* "none" | "null" | "open" | "closed"
  partial,         \* the file holds a record shorter than a frame
  pushed,          \* history: frames sourceThread pushed, in order
  numWritten,      \* history: frames sinkThread has written whole
  outOfOrder,      \* history: some write was not the next frame pushed
  keyPressed,      \* history: main took the kbhit branch
  terminalWrites,  \* history: assignments of a terminal value to s_status
  pushesAfterStop, \* history: push_back calls ended with s_status terminal
  framesFreed,     \* main has deleted the pool
  exitCode,        \* main's return value, NoExit until it returns
  uFrameNumber,    \* the frame number of the last frame's descriptor
  gapBudget,       \* frames the device may still number out of sequence
  s_expectedFrameNumber,
  filePos,         \* dataFile's position, in frames
  fileSize,        \* dataFile's length, in frames
  cb,              \* countImagesViaCallback: a record of its globals, of
                   \* its callback threads' positions and of the history
  oem,             \* captureOEM: the object at work, a record of its
                   \* members and of its threads' positions
  srcMismatch,     \* sourceThread printed "Expected frame ..." for pFrame
  firstWritten     \* history: the first frame sinkThread wrote

vars == <<s_status, s_tail, s_frames, s_frameQueue, streaming, delivered,
          frameBudget, raceBudget,
          pcMain, pcSource, pcSink, srcFrame, srcFinish, snkFrame, snkFinish,
          snkTorn, numFramesInFile, dataFile, partial, pushed, numWritten,
          outOfOrder, keyPressed, terminalWrites, pushesAfterStop,
          framesFreed, exitCode, uFrameNumber, gapBudget,
          s_expectedFrameNumber, filePos, fileSize, cb, oem, srcMismatch,
          firstWritten>>

MAX_IMAGES == 32

\* vector<FRAME_DATA*>::size()
QueueSize == s_frameQueue.finish

\* n + 1, but no higher than m: the history counters stop counting at m.
Cap(n, m) == IF n < m THEN n + 1 ELSE m

\* The state after construction, but for the two budgets of the environment.
Start ==
  /\ s_status = STATUS_RUNNING
  /\ s_tail = 0
  /\ s_frames = [s \in Slots |-> NoFrame]
  /\ s_frameQueue = [elems |-> [i \in Slots |-> NoSlot], finish |-> 0]
  /\ streaming = FALSE
  /\ delivered = 0
  /\ pcMain = "init"
  /\ pcSource = "idle"
  /\ pcSink = "idle"
  /\ srcFrame = NoSlot
  /\ srcFinish = 0
  /\ snkFrame = NoSlot
  /\ snkFinish = 0
  /\ snkTorn = FALSE
  /\ numFramesInFile = 0
  /\ dataFile = "none"
  /\ partial = FALSE
  /\ pushed = <<>>
  /\ numWritten = 0
  /\ outOfOrder = FALSE
  /\ keyPressed = FALSE
  /\ terminalWrites = 0
  /\ pushesAfterStop = 0
  /\ framesFreed = FALSE
  /\ exitCode = NoExit
  /\ uFrameNumber = 0
  /\ s_expectedFrameNumber = 0
  /\ filePos = 0
  /\ fileSize = 0
  /\ srcMismatch = FALSE
  /\ firstWritten = NoFrame

\* The globals of countImagesViaCallback are fields of cb.
gFrameCount == cb.gFrameCount
gLostFrameCount == cb.gLostFrameCount
gExpectedFrameNum == cb.gExpectedFrameNum
gReceivedFirstFrame == cb.gReceivedFirstFrame
gMutex == cb.gMutex                \* 0 free, else the thread holding it
cbPc == cb.cbPc                    \* where each thread is in the callback
cbArg == cb.cbArg                  \* pFrameDesc->uFrameNumber of each call
frameNumDelta == cb.frameNumDelta  \* the local of each thread's call
cbHistory == cb.cbHistory          \* history: the frame numbers received

\* The threads the API calls the frame callback on.
CbThreads == 1 .. MaxCbThreads

\* The globals of countImagesViaCallback as their initialisers leave them,
\* with no callback in progress.
CallbackStart ==
  cb = [part |-> "callback",
        gFrameCount |-> 0,
        gLostFrameCount |-> 0,
        gExpectedFrameNum |-> 0,
        gReceivedFirstFrame |-> FALSE,
        cbHistory |-> <<>>,
        gMutex |-> 0,
        cbPc |-> [t \in CbThreads |-> "idle"],
        cbArg |-> [t \in CbThreads |-> 0],
        frameNumDelta |-> [t \in CbThreads |-> 0]]

\* countImagesViaCallback is not running.
CallbackUnused == cb = [part |-> "none"]

\* captureOEM is not running.
CaptureOEMUnused == oem = [part |-> "none"]

\* The device numbers its frames consecutively.
Init ==
  /\ Start
  /\ CallbackUnused
  /\ CaptureOEMUnused
  /\ frameBudget = MaxFrames
  /\ raceBudget = MaxRaces
  /\ gapBudget = 0

\* A thread is part-way through an operation on s_frameQueue.
SourceInQueueOp == pcSource = "push_end"
SinkInQueueOp == pcSink \in {"erase", "erase_load", "erase_store"}

\* The schedule lets a queue operation start beside the other thread's
\* unfinished one only while the budget lasts.
StartQueueOp(otherInside) ==
  /\ otherInside => raceBudget > 0
  /\ raceBudget' = IF otherInside THEN raceBudget - 1 ELSE raceBudget

\* ------------------------------------------------------------ main
SetTerminal(st) ==
  /\ s_status' = st
  /\ terminalWrites' = Cap(terminalWrites, 2)

\* Steps 1-3: allocate the pool, find and initialise the camera, start the
\* stream; any failure jumps to Cleanup with no thread started.
MainInit ==
  /\ pcMain = "init"
  /\ s_tail' = 0
  /\ \E ok \in BOOLEAN :
       /\ streaming' = ok
       /\ pcMain' = IF ok THEN "create" ELSE "cleanup"
  /\ UNCHANGED <<s_status, s_frames, s_frameQueue, delivered, frameBudget,
                 raceBudget, pcSource, pcSink, srcFrame, srcFinish, snkFrame,
                 snkFinish, snkTorn, numFramesInFile, dataFile, partial,
                 pushed, numWritten, outOfOrder, keyPressed, terminalWrites,
                 pushesAfterStop, framesFreed, exitCode, uFrameNumber,
                 gapBudget, s_expectedFrameNumber, filePos, fileSize, cb, oem,
                 srcMismatch, firstWritten>>

\* Step 4: s_status = STATUS_RUNNING, then both pthread_create calls.
MainCreateThreads ==
  /\ pcMain = "create"
  /\ s_status' = STATUS_RUNNING
  /\ pcSource' = "begin"
  /\ pcSink' = "open"
  /\ pcMain' = "settle"
  /\ UNCHANGED <<s_tail, s_frames, s_frameQueue, streaming, delivered,
                 frameBudget, raceBudget, srcFrame, srcFinish, snkFrame,
                 snkFinish, snkTorn, numFramesInFile, dataFile, partial,
                 pushed, numWritten, outOfOrder, keyPressed, terminalWrites,
                 pushesAfterStop, framesFreed, exitCode, uFrameNumber,
                 gapBudget, s_expectedFrameNumber, filePos, fileSize, cb, oem,
                 srcMismatch, firstWritten>>

\* MainSettle with the assignment of STATUS_RUNNING placed after the wait.
MainSettle_SetsRunning ==
  /\ pcMain = "settle"
  /\ s_status' = STATUS_RUNNING
  /\ pcMain' = "loop"
  /\ UNCHANGED <<s_tail, s_frames, s_frameQueue, streaming, delivered,
                 frameBudget, raceBudget, pcSource, pcSink, srcFrame,
                 srcFinish, snkFrame, snkFinish, snkTorn, numFramesInFile,
                 dataFile, partial, pushed, numWritten, outOfOrder,
                 keyPressed, terminalWrites, pushesAfterStop, framesFreed,
                 exitCode, uFrameNumber, gapBudget, s_expectedFrameNumber,
                 filePos, fileSize, cb, oem, srcMismatch, firstWritten>>

\* usleep (500 ms); if (s_status != STATUS_RUNNING) goto Cleanup
MainSettle ==
  /\ pcMain = "settle"
  /\ pcMain' = IF s_status # STATUS_RUNNING THEN "cleanup" ELSE "loop"
  /\ UNCHANGED <<s_status, s_tail, s_frames, s_frameQueue, streaming,
                 delivered, frameBudget, raceBudget, pcSource, pcSink,
                 srcFrame, srcFinish, snkFrame, snkFinish, snkTorn,
                 numFramesInFile, dataFile, partial, pushed, numWritten,
                 outOfOrder, keyPressed, terminalWrites, pushesAfterStop,
                 framesFreed, exitCode, uFrameNumber, gapBudget,
                 s_expectedFrameNumber, filePos, fileSize, cb, oem,
                 srcMismatch, firstWritten>>

\* while (s_status == STATUS_RUNNING)
MainLoopTest ==
  /\ pcMain = "loop"
  /\ pcMain' = IF s_status = STATUS_RUNNING THEN "kbhit" ELSE "stop"
  /\ UNCHANGED <<s_status, s_tail, s_frames, s_frameQueue, streaming,
                 delivered, frameBudget, raceBudget, pcSource, pcSink,
                 srcFrame, srcFinish, snkFrame, snkFinish, snkTorn,
                 numFramesInFile, dataFile, partial, pushed, numWritten,
                 outOfOrder, keyPressed, terminalWrites, pushesAfterStop,
                 framesFreed, exitCode, uFrameNumber, gapBudget,
                 s_expectedFrameNumber, filePos, fileSize, cb, oem,
                 srcMismatch, firstWritten>>

\* if (kbhit()) { s_status = STATUS_USER_STOPPED; break; }
MainKbhit ==
  /\ pcMain = "kbhit"
  /\ \/ /\ SetTerminal(STATUS_USER_STOPPED)
        /\ keyPressed' = TRUE
        /\ pcMain' = "stop"
     \/ /\ pcMain' = "loop"
        /\ UNCHANGED <<s_status, terminalWrites, keyPressed>>
  /\ UNCHANGED <<s_tail, s_frames, s_frameQueue, streaming, delivered,
                 frameBudget, raceBudget, pcSource, pcSink, srcFrame,
                 srcFinish, snkFrame, snkFinish, snkTorn, numFramesInFile,
                 dataFile, partial, pushed, numWritten, outOfOrder,
                 pushesAfterStop, framesFreed, exitCode, uFrameNumber,
                 gapBudget, s_expectedFrameNumber, filePos, fileSize, cb, oem,
                 srcMismatch, firstWritten>>

\* PxLSetStreamState (STOP_STREAM); usleep (1000 ms)
MainStopStream ==
  /\ pcMain = "stop"
  /\ streaming' = FALSE
  /\ pcMain' = "cleanup"
  /\ UNCHANGED <<s_status, s_tail, s_frames, s_frameQueue, delivered,
                 frameBudget, raceBudget, pcSource, pcSink, srcFrame,
                 srcFinish, snkFrame, snkFinish, snkTorn, numFramesInFile,
                 dataFile, partial, pushed, numWritten, outOfOrder,
                 keyPressed, terminalWrites, pushesAfterStop, framesFreed,
                 exitCode, uFrameNumber, gapBudget, s_expectedFrameNumber,
                 filePos, fileSize, cb, oem, srcMismatch, firstWritten>>

\* Cleanup: stop the stream again, uninitialise, delete the pool (no thread
\* is joined first); control then flows off the end of main, which is a
\* return of 0 on every path.
MainCleanup ==
  /\ pcMain = "cleanup"
  /\ streaming' = FALSE
  /\ framesFreed' = TRUE
  /\ exitCode' = 0
  /\ pcMain' = "done"
  /\ UNCHANGED <<s_status, s_tail, s_frames, s_frameQueue, delivered,
                 frameBudget, raceBudget, pcSource, pcSink, srcFrame,
                 srcFinish, snkFrame, snkFinish, snkTorn, numFramesInFile,
                 dataFile, partial, pushed, numWritten, outOfOrder,
                 keyPressed, terminalWrites, pushesAfterStop, uFrameNumber,
                 gapBudget, s_expectedFrameNumber, filePos, fileSize, cb, oem,
                 srcMismatch, firstWritten>>

main ==
  \/ MainInit
  \/ MainCreateThreads
  \/ MainSettle
  \/ MainLoopTest
  \/ MainKbhit
  \/ MainStopStream
  \/ MainCleanup

\* ------------------------------------------------------------ the device
\* PxLGetNextFrame can return a frame only while the stream runs; it can
\* fail at any time, and it fails once the stream is stopped.
CanDeliver == streaming /\ delivered < frameBudget

\* The uFrameNumber the next descriptor can carry: one more than the last
\* frame's, or, while the budget lasts, two more (a frame was lost in the
\* camera), the same again or one less (numbers below the one expected).
NextFrameNumbers ==
  IF gapBudget > 0
    THEN {n \in (uFrameNumber - 1) .. (uFrameNumber + 2) : n >= 0}
    ELSE {uFrameNumber + 1}

\* The frame lands in slot s; a sinkThread part-way through fwrite of the
\* same slot reads a mix of the old and the new bytes.
Deliver(s) ==
  /\ \E n \in NextFrameNumbers :
       /\ uFrameNumber' = n
       /\ gapBudget' = IF n = uFrameNumber + 1 THEN gapBudget
                                               ELSE gapBudget - 1
  /\ delivered' = delivered + 1
  /\ s_frames' = [s_frames EXCEPT ![s] = delivered + 1]
  /\ snkTorn' = (snkTorn \/ (pcSink = "write" /\ snkFrame = s))

\* ------------------------------------------------------------ sourceThread
\* FRAME_DATA* pFrame = s_frames[s_tail]; the initial PxLGetNextFrame is
\* issued into it.
SourceBegin ==
  /\ pcSource = "begin"
  /\ srcFrame' = s_tail
  /\ pcSource' = "first"
  /\ UNCHANGED <<s_status, s_tail, s_frames, s_frameQueue, streaming,
                 delivered, frameBudget, raceBudget, pcMain, pcSink,
                 srcFinish, snkFrame, snkFinish, snkTorn, numFramesInFile,
                 dataFile, partial, pushed, numWritten, outOfOrder,
                 keyPressed, terminalWrites, pushesAfterStop, framesFreed,
                 exitCode, uFrameNumber, gapBudget, s_expectedFrameNumber,
                 filePos, fileSize, cb, oem, srcMismatch, firstWritten>>

\* SourceFirstFrame with the write cursor advanced past the initial frame.
SourceFirstFrame_AdvancesTail ==
  /\ pcSource = "first"
  /\ \/ /\ CanDeliver
        /\ Deliver(srcFrame)
        /\ s_expectedFrameNumber' = uFrameNumber' + 1
        /\ s_tail' = TailInc(s_tail)
        /\ pcSource' = "loop"
        /\ UNCHANGED <<s_status, terminalWrites>>
     \/ /\ SetTerminal(STATUS_ERROR)
        /\ pcSource' = "done"
        /\ UNCHANGED <<delivered, s_frames, snkTorn, uFrameNumber, gapBudget,
                       s_expectedFrameNumber, s_tail>>
  /\ UNCHANGED <<s_frameQueue, streaming, frameBudget, raceBudget, pcMain,
                 pcSink, srcFrame, srcFinish, snkFrame, snkFinish,
                 numFramesInFile, dataFile, partial, pushed, numWritten,
                 outOfOrder, keyPressed, pushesAfterStop, framesFreed,
                 exitCode, filePos, fileSize, cb, oem, srcMismatch,
                 firstWritten>>

\* SourceFirstFrame without the goto Cleanup: after a failed acquire the
\* thread goes on to seed the expected number and to enter the loop.
SourceFirstFrame_FallsThrough ==
  /\ pcSource = "first"
  /\ \/ /\ CanDeliver
        /\ Deliver(srcFrame)
        /\ s_expectedFrameNumber' = uFrameNumber' + 1
        /\ UNCHANGED <<s_status, terminalWrites>>
     \/ /\ SetTerminal(STATUS_ERROR)
        /\ s_expectedFrameNumber' = uFrameNumber + 1
        /\ UNCHANGED <<delivered, s_frames, snkTorn, uFrameNumber, gapBudget>>
  /\ pcSource' = "loop"
  /\ UNCHANGED <<s_tail, s_frameQueue, streaming, frameBudget, raceBudget,
                 pcMain, pcSink, srcFrame, srcFinish, snkFrame, snkFinish,
                 numFramesInFile, dataFile, partial, pushed, numWritten,
                 outOfOrder, keyPressed, pushesAfterStop, framesFreed,
                 exitCode, filePos, fileSize, cb, oem, srcMismatch,
                 firstWritten>>

\* Step 1: the initial acquire returns; a failure is fatal.
SourceFirstFrame ==
  /\ pcSource = "first"
  /\ \/ /\ CanDeliver
        /\ Deliver(srcFrame)
        /\ s_expectedFrameNumber' = uFrameNumber' + 1
        /\ pcSource' = "loop"
        /\ UNCHANGED <<s_status, terminalWrites>>
     \/ /\ SetTerminal(STATUS_ERROR)
        /\ pcSource' = "done"
        /\ UNCHANGED <<delivered, s_frames, snkTorn, uFrameNumber, gapBudget,
                       s_expectedFrameNumber>>
  /\ UNCHANGED <<s_tail, s_frameQueue, streaming, frameBudget, raceBudget,
                 pcMain, pcSink, srcFrame, srcFinish, snkFrame, snkFinish,
                 numFramesInFile, dataFile, partial, pushed, numWritten,
                 outOfOrder, keyPressed, pushesAfterStop, framesFreed,
                 exitCode, filePos, fileSize, cb, oem, srcMismatch,
                 firstWritten>>

\* SourceLoopTest with a loop that ends on STATUS_ERROR only.
SourceLoopTest_OnlyError ==
  /\ pcSource = "loop"
  /\ pcSource' = IF s_status # STATUS_ERROR THEN "take" ELSE "done"
  /\ UNCHANGED <<s_status, s_tail, s_frames, s_frameQueue, streaming,
                 delivered, frameBudget, raceBudget, pcMain, pcSink, srcFrame,
                 srcFinish, snkFrame, snkFinish, snkTorn, numFramesInFile,
                 dataFile, partial, pushed, numWritten, outOfOrder,
                 keyPressed, terminalWrites, pushesAfterStop, framesFreed,
                 exitCode, uFrameNumber, gapBudget, s_expectedFrameNumber,
                 filePos, fileSize, cb, oem, srcMismatch, firstWritten>>

\* while (s_status == STATUS_RUNNING)
SourceLoopTest ==
  /\ pcSource = "loop"
  /\ pcSource' = IF s_status = STATUS_RUNNING THEN "take" ELSE "done"
  /\ UNCHANGED <<s_status, s_tail, s_frames, s_frameQueue, streaming,
                 delivered, frameBudget, raceBudget, pcMain, pcSink, srcFrame,
                 srcFinish, snkFrame, snkFinish, snkTorn, numFramesInFile,
                 dataFile, partial, pushed, numWritten, outOfOrder,
                 keyPressed, terminalWrites, pushesAfterStop, framesFreed,
                 exitCode, uFrameNumber, gapBudget, s_expectedFrameNumber,
                 filePos, fileSize, cb, oem, srcMismatch, firstWritten>>

\* pFrame = s_frames[s_tail]; s_tail = (s_tail + 1) & BUFFER_SIZE_MASK;
\* the blocking PxLGetNextFrame is issued into pFrame.
SourceTakeSlot ==
  /\ pcSource = "take"
  /\ srcFrame' = s_tail
  /\ s_tail' = TailInc(s_tail)
  /\ pcSource' = "acquire"
  /\ UNCHANGED <<s_status, s_frames, s_frameQueue, streaming, delivered,
                 frameBudget, raceBudget, pcMain, pcSink, srcFinish, snkFrame,
                 snkFinish, snkTorn, numFramesInFile, dataFile, partial,
                 pushed, numWritten, outOfOrder, keyPressed, terminalWrites,
                 pushesAfterStop, framesFreed, exitCode, uFrameNumber,
                 gapBudget, s_expectedFrameNumber, filePos, fileSize, cb, oem,
                 srcMismatch, firstWritten>>

\* TrackFrameNumber that never moves the expected number down.
TrackFrameNumber_KeepsHigher(expected, received) ==
  IF received < expected THEN expected ELSE received + 1

\* Step 2.1: if (pFrame->m_descriptor.uFrameNumber != s_expectedFrameNumber)
FrameNumberDiffers(expected, received) == received # expected

\* Step 2.1: the frame number is compared with the expected one (a
\* difference is only printed) and the expected one becomes received + 1.
TrackFrameNumber(expected, received) == received + 1

\* PxLGetNextFrame returns: on failure the cursor steps back and the loop
\* continues; on success the frame is in pFrame and its number is tracked.
SourceGetNextFrame ==
  /\ pcSource = "acquire"
  /\ \/ /\ CanDeliver
        /\ Deliver(srcFrame)
        /\ srcMismatch' =
             FrameNumberDiffers(s_expectedFrameNumber, uFrameNumber')
        /\ s_expectedFrameNumber' =
             TrackFrameNumber(s_expectedFrameNumber, uFrameNumber')
        /\ pcSource' = "check"
        /\ UNCHANGED s_tail
     \/ /\ s_tail' = TailDec(s_tail)
        /\ pcSource' = "loop"
        /\ UNCHANGED <<delivered, s_frames, snkTorn, uFrameNumber, gapBudget,
                       s_expectedFrameNumber, srcMismatch>>
  /\ UNCHANGED <<s_status, s_frameQueue, streaming, frameBudget, raceBudget,
                 pcMain, pcSink, srcFrame, srcFinish, snkFrame, snkFinish,
                 numFramesInFile, dataFile, partial, pushed, numWritten,
                 outOfOrder, keyPressed, terminalWrites, pushesAfterStop,
                 framesFreed, exitCode, filePos, fileSize, cb, oem,
                 firstWritten>>

\* QueueNearFull with > for >=.
QueueNearFull_OffByOne == QueueSize > BUFFER_SIZE - OVERRUN_MARGIN

\* Step 2.2: if (s_frameQueue.size () >= (BUFFER_SIZE - 3))
QueueNearFull == QueueSize >= BUFFER_SIZE - OVERRUN_MARGIN

\* SourceCheckFull without the break: the overrun is flagged and the frame
\* is pushed all the same.
SourceCheckFull_NoBreak ==
  /\ pcSource = "check"
  /\ IF QueueNearFull
       THEN /\ SetTerminal(STATUS_SINK_OVERRUN)
            /\ pcSource' = "push"
       ELSE /\ pcSource' = "push"
            /\ UNCHANGED <<s_status, terminalWrites>>
  /\ UNCHANGED <<s_tail, s_frames, s_frameQueue, streaming, delivered,
                 frameBudget, raceBudget, pcMain, pcSink, srcFrame, srcFinish,
                 snkFrame, snkFinish, snkTorn, numFramesInFile, dataFile,
                 partial, pushed, numWritten, outOfOrder, keyPressed,
                 pushesAfterStop, framesFreed, exitCode, uFrameNumber,
                 gapBudget, s_expectedFrameNumber, filePos, fileSize, cb, oem,
                 srcMismatch, firstWritten>>

\* SourceCheckFull with the test left out: the frame is always pushed.
SourceCheckFull_Skipped ==
  /\ pcSource = "check"
  /\ pcSource' = "push"
  /\ UNCHANGED <<s_status, s_tail, s_frames, s_frameQueue, streaming,
                 delivered, frameBudget, raceBudget, pcMain, pcSink, srcFrame,
                 srcFinish, snkFrame, snkFinish, snkTorn, numFramesInFile,
                 dataFile, partial, pushed, numWritten, outOfOrder,
                 keyPressed, terminalWrites, pushesAfterStop, framesFreed,
                 exitCode, uFrameNumber, gapBudget, s_expectedFrameNumber,
                 filePos, fileSize, cb, oem, srcMismatch, firstWritten>>

\* SourceCheckFull with a frame whose number was not the expected one
\* dropped: the loop goes on to the next slot without the push.
SourceCheckFull_DropsGap ==
  /\ pcSource = "check"
  /\ IF QueueNearFull
       THEN /\ SetTerminal(STATUS_SINK_OVERRUN)
            /\ pcSource' = "done"
       ELSE /\ pcSource' = IF srcMismatch THEN "loop" ELSE "push"
            /\ UNCHANGED <<s_status, terminalWrites>>
  /\ UNCHANGED <<s_tail, s_frames, s_frameQueue, streaming, delivered,
                 frameBudget, raceBudget, pcMain, pcSink, srcFrame, srcFinish,
                 snkFrame, snkFinish, snkTorn, numFramesInFile, dataFile,
                 partial, pushed, numWritten, outOfOrder, keyPressed,
                 pushesAfterStop, framesFreed, exitCode, uFrameNumber,
                 gapBudget, s_expectedFrameNumber, filePos, fileSize, cb, oem,
                 srcMismatch, firstWritten>>

\* ... set STATUS_SINK_OVERRUN and break, else go on to push_back.
SourceCheckFull ==
  /\ pcSource = "check"
  /\ IF QueueNearFull
       THEN /\ SetTerminal(STATUS_SINK_OVERRUN)
            /\ pcSource' = "done"
       ELSE /\ pcSource' = "push"
            /\ UNCHANGED <<s_status, terminalWrites>>
  /\ UNCHANGED <<s_tail, s_frames, s_frameQueue, streaming, delivered,
                 frameBudget, raceBudget, pcMain, pcSink, srcFrame, srcFinish,
                 snkFrame, snkFinish, snkTorn, numFramesInFile, dataFile,
                 partial, pushed, numWritten, outOfOrder, keyPressed,
                 pushesAfterStop, framesFreed, exitCode, uFrameNumber,
                 gapBudget, s_expectedFrameNumber, filePos, fileSize, cb, oem,
                 srcMismatch, firstWritten>>

\* Step 2.3: push_back, first half: the element is stored at the vector's
\* end as read now.
SourcePushBack ==
  /\ pcSource = "push"
  /\ StartQueueOp(SinkInQueueOp)
  /\ srcFinish' = s_frameQueue.finish
  /\ s_frameQueue' =
       [s_frameQueue EXCEPT !.elems[s_frameQueue.finish] = srcFrame]
  /\ pushed' = Append(pushed, s_frames[srcFrame])
  /\ pcSource' = "push_end"
  /\ UNCHANGED <<s_status, s_tail, s_frames, streaming, delivered,
                 frameBudget, pcMain, pcSink, srcFrame, snkFrame, snkFinish,
                 snkTorn, numFramesInFile, dataFile, partial, numWritten,
                 outOfOrder, keyPressed, terminalWrites, pushesAfterStop,
                 framesFreed, exitCode, uFrameNumber, gapBudget,
                 s_expectedFrameNumber, filePos, fileSize, cb, oem,
                 srcMismatch, firstWritten>>

\* push_back, second half: the end moves one past the stored element.
SourcePushBackEnd ==
  /\ pcSource = "push_end"
  /\ s_frameQueue' = [s_frameQueue EXCEPT !.finish = srcFinish + 1]
  /\ srcFinish' = 0
  /\ srcFrame' = NoSlot
  /\ srcMismatch' = FALSE
  /\ pushesAfterStop' =
       IF s_status # STATUS_RUNNING THEN Cap(pushesAfterStop, 2)
                                    ELSE pushesAfterStop
  /\ pcSource' = "loop"
  /\ UNCHANGED <<s_status, s_tail, s_frames, streaming, delivered,
                 frameBudget, raceBudget, pcMain, pcSink, snkFrame, snkFinish,
                 snkTorn, numFramesInFile, dataFile, partial, pushed,
                 numWritten, outOfOrder, keyPressed, terminalWrites,
                 framesFreed, exitCode, uFrameNumber, gapBudget,
                 s_expectedFrameNumber, filePos, fileSize, cb, oem,
                 firstWritten>>

sourceThread ==
  \/ SourceBegin
  \/ SourceFirstFrame
  \/ SourceLoopTest
  \/ SourceTakeSlot
  \/ SourceGetNextFrame
  \/ SourceCheckFull
  \/ SourcePushBack
  \/ SourcePushBackEnd

\* ------------------------------------------------------------ sinkThread
\* Step 1: fopen; a null handle is fatal.
SinkOpen ==
  /\ pcSink = "open"
  /\ \/ /\ dataFile' = "open"
        /\ pcSink' = "loop"
        /\ UNCHANGED <<s_status, terminalWrites>>
     \/ /\ dataFile' = "null"
        /\ SetTerminal(STATUS_ERROR)
        /\ pcSink' = "cleanup"
  /\ UNCHANGED <<s_tail, s_frames, s_frameQueue, streaming, delivered,
                 frameBudget, raceBudget, pcMain, pcSource, srcFrame,
                 srcFinish, snkFrame, snkFinish, snkTorn, numFramesInFile,
                 partial, pushed, numWritten, outOfOrder, keyPressed,
                 pushesAfterStop, framesFreed, exitCode, uFrameNumber,
                 gapBudget, s_expectedFrameNumber, filePos, fileSize, cb, oem,
                 srcMismatch, firstWritten>>

\* SinkLoopTest with a loop that goes on until the queue is empty.
SinkLoopTest_Drains ==
  /\ pcSink = "loop"
  /\ pcSink' = IF s_status = STATUS_RUNNING \/ QueueSize > 0 THEN "poll"
                                                             ELSE "cleanup"
  /\ UNCHANGED <<s_status, s_tail, s_frames, s_frameQueue, streaming,
                 delivered, frameBudget, raceBudget, pcMain, pcSource,
                 srcFrame, srcFinish, snkFrame, snkFinish, snkTorn,
                 numFramesInFile, dataFile, partial, pushed, numWritten,
                 outOfOrder, keyPressed, terminalWrites, pushesAfterStop,
                 framesFreed, exitCode, uFrameNumber, gapBudget,
                 s_expectedFrameNumber, filePos, fileSize, cb, oem,
                 srcMismatch, firstWritten>>

\* SinkLoopTest with a loop that ends on STATUS_USER_STOPPED only.
SinkLoopTest_OnlyUserStop ==
  /\ pcSink = "loop"
  /\ pcSink' = IF s_status # STATUS_USER_STOPPED THEN "poll" ELSE "cleanup"
  /\ UNCHANGED <<s_status, s_tail, s_frames, s_frameQueue, streaming,
                 delivered, frameBudget, raceBudget, pcMain, pcSource,
                 srcFrame, srcFinish, snkFrame, snkFinish, snkTorn,
                 numFramesInFile, dataFile, partial, pushed, numWritten,
                 outOfOrder, keyPressed, terminalWrites, pushesAfterStop,
                 framesFreed, exitCode, uFrameNumber, gapBudget,
                 s_expectedFrameNumber, filePos, fileSize, cb, oem,
                 srcMismatch, firstWritten>>

\* while (s_status == STATUS_RUNNING)
SinkLoopTest ==
  /\ pcSink = "loop"
  /\ pcSink' = IF s_status = STATUS_RUNNING THEN "poll" ELSE "cleanup"
  /\ UNCHANGED <<s_status, s_tail, s_frames, s_frameQueue, streaming,
                 delivered, frameBudget, raceBudget, pcMain, pcSource,
                 srcFrame, srcFinish, snkFrame, snkFinish, snkTorn,
                 numFramesInFile, dataFile, partial, pushed, numWritten,
                 outOfOrder, keyPressed, terminalWrites, pushesAfterStop,
                 framesFreed, exitCode, uFrameNumber, gapBudget,
                 s_expectedFrameNumber, filePos, fileSize, cb, oem,
                 srcMismatch, firstWritten>>

\* if (!s_frameQueue.empty()) pFrame = s_frameQueue[0];
SinkFront ==
  /\ pcSink = "poll"
  /\ IF QueueSize = 0
       THEN /\ pcSink' = "loop"
            /\ UNCHANGED <<snkFrame, raceBudget>>
       ELSE /\ StartQueueOp(SourceInQueueOp)
            /\ snkFrame' = s_frameQueue.elems[0]
            /\ pcSink' = "erase"
  /\ UNCHANGED <<s_status, s_tail, s_frames, s_frameQueue, streaming,
                 delivered, frameBudget, pcMain, pcSource, srcFrame,
                 srcFinish, snkFinish, snkTorn, numFramesInFile, dataFile,
                 partial, pushed, numWritten, outOfOrder, keyPressed,
                 terminalWrites, pushesAfterStop, framesFreed, exitCode,
                 uFrameNumber, gapBudget, s_expectedFrameNumber, filePos,
                 fileSize, cb, oem, srcMismatch, firstWritten>>

\* The cells [1, last) moved down by one; the cell last - 1 keeps its value.
MoveDown(elems, last) ==
  [i \in DOMAIN elems |-> IF i + 1 < last THEN elems[i + 1] ELSE elems[i]]

\* s_frameQueue.erase (begin()), first part: the cells after the front are
\* moved down, up to the vector's end as read now.
SinkEraseMove ==
  /\ pcSink = "erase"
  /\ snkFinish' = s_frameQueue.finish
  /\ s_frameQueue' =
       [s_frameQueue EXCEPT !.elems = MoveDown(@, s_frameQueue.finish)]
  /\ pcSink' = "erase_load"
  /\ UNCHANGED <<s_status, s_tail, s_frames, streaming, delivered,
                 frameBudget, raceBudget, pcMain, pcSource, srcFrame,
                 srcFinish, snkFrame, snkTorn, numFramesInFile, dataFile,
                 partial, pushed, numWritten, outOfOrder, keyPressed,
                 terminalWrites, pushesAfterStop, framesFreed, exitCode,
                 uFrameNumber, gapBudget, s_expectedFrameNumber, filePos,
                 fileSize, cb, oem, srcMismatch, firstWritten>>

\* erase, second part: the end is read again for the decrement ...
SinkEraseLoad ==
  /\ pcSink = "erase_load"
  /\ snkFinish' = s_frameQueue.finish
  /\ pcSink' = "erase_store"
  /\ UNCHANGED <<s_status, s_tail, s_frames, s_frameQueue, streaming,
                 delivered, frameBudget, raceBudget, pcMain, pcSource,
                 srcFrame, srcFinish, snkFrame, snkTorn, numFramesInFile,
                 dataFile, partial, pushed, numWritten, outOfOrder,
                 keyPressed, terminalWrites, pushesAfterStop, framesFreed,
                 exitCode, uFrameNumber, gapBudget, s_expectedFrameNumber,
                 filePos, fileSize, cb, oem, srcMismatch, firstWritten>>

\* The cells at and past index live hold destroyed elements that no execution
\* reads before push_back stores over them: their content is not kept.
Destroy(elems, live) ==
  [i \in DOMAIN elems |-> IF i < live THEN elems[i] ELSE NoSlot]

\* The cells a pending push_back will put back inside the vector.
PendingEnd == IF pcSource = "push_end" THEN srcFinish + 1 ELSE 0

Max(a, b) == IF a > b THEN a ELSE b

\* ... and stored back one lower; fwrite of pFrame's image starts.
SinkEraseStore ==
  /\ pcSink = "erase_store"
  /\ s_frameQueue' =
       [elems |-> Destroy(s_frameQueue.elems, Max(snkFinish - 1, PendingEnd)),
        finish |-> snkFinish - 1]
  /\ snkFinish' = 0
  /\ snkTorn' = FALSE
  /\ pcSink' = "write"
  /\ UNCHANGED <<s_status, s_tail, s_frames, streaming, delivered,
                 frameBudget, raceBudget, pcMain, pcSource, srcFrame,
                 srcFinish, snkFrame, numFramesInFile, dataFile, partial,
                 pushed, numWritten, outOfOrder, keyPressed, terminalWrites,
                 pushesAfterStop, framesFreed, exitCode, uFrameNumber,
                 gapBudget, s_expectedFrameNumber, filePos, fileSize, cb, oem,
                 srcMismatch, firstWritten>>

\* What fwrite read from the slot.
ImageRead == IF snkTorn THEN {s_frames[snkFrame], Torn} ELSE {s_frames[snkFrame]}

\* LimitReached with > for >=.
LimitReached_OffByOne(n) == n + 1 > MAX_IMAGES

\* Step 2.2: if (++numFramesInFile >= MAX_IMAGES), for the counter at n
\* before the increment.
LimitReached(n) == n + 1 >= MAX_IMAGES

\* ... { fseek (dataFile, 0, SEEK_SET); numFramesInFile = 0; }
CountFrame(n) == IF LimitReached(n) THEN 0 ELSE n + 1

\* Frame f, written now, is the next frame of those pushed.
NextInOrder(f) ==
  /\ numWritten < Len(pushed)
  /\ f = pushed[numWritten + 1]

\* Step 2.1: fwrite returns; a short write is fatal and leaves a partial
\* record behind.
SinkWrite ==
  /\ pcSink = "write"
  /\ \/ /\ \E f \in ImageRead :
             /\ outOfOrder' = (outOfOrder \/ ~ NextInOrder(f))
             /\ firstWritten' = IF numWritten = 0 THEN f ELSE firstWritten
        /\ numWritten' = numWritten + 1
        /\ fileSize' = Max(fileSize, filePos + 1)
        /\ filePos' = IF LimitReached(numFramesInFile) THEN 0 ELSE filePos + 1
        /\ numFramesInFile' = CountFrame(numFramesInFile)
        /\ pcSink' = "loop"
        /\ UNCHANGED <<s_status, terminalWrites, partial>>
     \/ /\ partial' = TRUE
        /\ SetTerminal(STATUS_ERROR)
        /\ pcSink' = "cleanup"
        /\ UNCHANGED <<numWritten, outOfOrder, numFramesInFile, filePos,
                       fileSize, firstWritten>>
  /\ snkFrame' = NoSlot
  /\ snkTorn' = FALSE
  /\ UNCHANGED <<s_tail, s_frames, s_frameQueue, streaming, delivered,
                 frameBudget, raceBudget, pcMain, pcSource, srcFrame,
                 srcFinish, snkFinish, dataFile, pushed, keyPressed,
                 pushesAfterStop, framesFreed, exitCode, uFrameNumber,
                 gapBudget, s_expectedFrameNumber, cb, oem, srcMismatch>>

\* Cleanup: fclose (dataFile); pthread_exit. After a failed fopen the handle
\* is null and the call has no defined behaviour: it returns having done
\* nothing, or it faults and takes the process down.
SinkCleanup ==
  /\ pcSink = "cleanup"
  /\ IF dataFile = "open"
       THEN dataFile' = "closed" /\ pcSink' = "done"
       ELSE dataFile' = dataFile /\ pcSink' \in {"done", "fault"}
  /\ UNCHANGED <<s_status, s_tail, s_frames, s_frameQueue, streaming,
                 delivered, frameBudget, raceBudget, pcMain, pcSource,
                 srcFrame, srcFinish, snkFrame, snkFinish, snkTorn,
                 numFramesInFile, partial, pushed, numWritten, outOfOrder,
                 keyPressed, terminalWrites, pushesAfterStop, framesFreed,
                 exitCode, uFrameNumber, gapBudget, s_expectedFrameNumber,
                 filePos, fileSize, cb, oem, srcMismatch, firstWritten>>

sinkThread ==
  \/ SinkOpen
  \/ SinkLoopTest
  \/ SinkFront
  \/ SinkEraseMove
  \/ SinkEraseLoad
  \/ SinkEraseStore
  \/ SinkWrite
  \/ SinkCleanup

\* sinkThread runs no more: it has exited, or its fclose has faulted.
SinkEnded == pcSink \in {"done", "fault"}

\* ------------------------------------------------------------ the program
Next == main \/ sourceThread \/ sinkThread

Spec == Init /\ [][Next]_vars

\* The runs in which nothing ends the capture and sinkThread keeps the queue
\* at two entries or fewer, with a device and a schedule that allow the write
\* cursor to go once around the pool.
InitLap ==
  /\ Start
  /\ CallbackUnused
  /\ CaptureOEMUnused
  /\ frameBudget = LapFrames
  /\ raceBudget = LapRaces
  /\ gapBudget = 0

SinkKeepsUp == s_status = STATUS_RUNNING /\ QueueSize <= 2

NextLap == Next /\ SinkKeepsUp'

SpecLap == InitLap /\ [][NextLap]_vars

\* The scheduler runs every thread that can take a step; the one call that
\* may block for ever is PxLGetNextFrame on a running stream, which returns
\* once the stream is stopped.
InitFair ==
  /\ Start
  /\ CallbackUnused
  /\ CaptureOEMUnused
  /\ frameBudget = FairFrames
  /\ raceBudget = FairRaces
  /\ gapBudget = 0

SourceRunnable ==
  \/ SourceBegin
  \/ SourceLoopTest
  \/ SourceTakeSlot
  \/ SourceCheckFull
  \/ SourcePushBack
  \/ SourcePushBackEnd

SourceUnblocked == ~ streaming /\ (SourceFirstFrame \/ SourceGetNextFrame)

SpecFair ==
  /\ InitFair
  /\ [][Next]_vars
  /\ WF_vars(main)
  /\ WF_vars(sinkThread)
  /\ WF_vars(SourceRunnable)
  /\ WF_vars(SourceUnblocked)

\* The same scheduler with a device that delivers enough frames for the queue
\* to reach the overrun margin, and queue operations that do not overlap.
InitFatal ==
  /\ Start
  /\ CallbackUnused
  /\ CaptureOEMUnused
  /\ frameBudget = FatalFrames
  /\ raceBudget = 0
  /\ gapBudget = 0

SpecFatal ==
  /\ InitFatal
  /\ [][Next]_vars
  /\ WF_vars(main)
  /\ WF_vars(sinkThread)
  /\ WF_vars(SourceRunnable)
  /\ WF_vars(SourceUnblocked)

\* The program with a device that delivers more than MAX_IMAGES frames, and
\* queue operations that do not overlap.
InitLong ==
  /\ Start
  /\ CallbackUnused
  /\ CaptureOEMUnused
  /\ frameBudget = LongFrames
  /\ raceBudget = 0
  /\ gapBudget = 0

SpecLong == InitLong /\ [][Next]_vars

\* The program with a camera that repeats or skips frame numbers.
InitGaps ==
  /\ Start
  /\ CallbackUnused
  /\ CaptureOEMUnused
  /\ frameBudget = GapFrames
  /\ raceBudget = GapRaces
  /\ gapBudget = MaxGaps

SpecGaps == InitGaps /\ [][Next]_vars

\* ------------------------------------------------------------
\* The countImagesViaCallback sample: the API calls FrameCallbackFunction
\* once per frame; the whole body runs with gMutex held.
FrameNums == 1 .. MaxFrameNum

\* if (!gReceivedFirstFrame) { ...; gExpectedFrameNum = uFrameNumber; }
SeedExpected(n) == IF gReceivedFirstFrame THEN gExpectedFrameNum ELSE n

\* FrameCallbackFunction with an expected number that is not moved past the
\* frame received.
FrameCallbackFunction_NoPlusOne(n) ==
  /\ Len(cbHistory) < MaxCallbacks
  /\ cb' = [cb EXCEPT
              !.gReceivedFirstFrame = TRUE,
              !.gFrameCount = @ + 1,
              !.gLostFrameCount =
                 IF n < SeedExpected(n) THEN @ - 1
                                        ELSE @ + (n - SeedExpected(n)),
              !.gExpectedFrameNum =
                 IF n < SeedExpected(n) THEN SeedExpected(n) ELSE n,
              !.cbHistory = Append(@, n)]
  /\ UNCHANGED <<s_status, s_tail, s_frames, s_frameQueue, streaming,
                 delivered, frameBudget, raceBudget, pcMain, pcSource, pcSink,
                 srcFrame, srcFinish, snkFrame, snkFinish, snkTorn,
                 numFramesInFile, dataFile, partial, pushed, numWritten,
                 outOfOrder, keyPressed, terminalWrites, pushesAfterStop,
                 framesFreed, exitCode, uFrameNumber, gapBudget,
                 s_expectedFrameNumber, filePos, fileSize, oem, srcMismatch,
                 firstWritten>>

\* FrameCallbackFunction with no correction for a frame that arrives late.
FrameCallbackFunction_NoDecrement(n) ==
  /\ Len(cbHistory) < MaxCallbacks
  /\ cb' = [cb EXCEPT
              !.gReceivedFirstFrame = TRUE,
              !.gFrameCount = @ + 1,
              !.gLostFrameCount =
                 IF n < SeedExpected(n) THEN @
                                        ELSE @ + (n - SeedExpected(n)),
              !.gExpectedFrameNum =
                 IF n < SeedExpected(n) THEN SeedExpected(n) ELSE n + 1,
              !.cbHistory = Append(@, n)]
  /\ UNCHANGED <<s_status, s_tail, s_frames, s_frameQueue, streaming,
                 delivered, frameBudget, raceBudget, pcMain, pcSource, pcSink,
                 srcFrame, srcFinish, snkFrame, snkFinish, snkTorn,
                 numFramesInFile, dataFile, partial, pushed, numWritten,
                 outOfOrder, keyPressed, terminalWrites, pushesAfterStop,
                 framesFreed, exitCode, uFrameNumber, gapBudget,
                 s_expectedFrameNumber, filePos, fileSize, oem, srcMismatch,
                 firstWritten>>

\* FrameCallbackFunction for a frame whose descriptor carries uFrameNumber n:
\* seed on the first call, count, then the late branch or the gap branch.
FrameCallbackFunction(n) ==
  /\ Len(cbHistory) < MaxCallbacks
  /\ cb' = [cb EXCEPT
              !.gReceivedFirstFrame = TRUE,
              !.gFrameCount = @ + 1,
              !.gLostFrameCount =
                 IF n < SeedExpected(n) THEN @ - 1
                                        ELSE @ + (n - SeedExpected(n)),
              !.gExpectedFrameNum =
                 IF n < SeedExpected(n) THEN SeedExpected(n) ELSE n + 1,
              !.cbHistory = Append(@, n)]
  /\ UNCHANGED <<s_status, s_tail, s_frames, s_frameQueue, streaming,
                 delivered, frameBudget, raceBudget, pcMain, pcSource, pcSink,
                 srcFrame, srcFinish, snkFrame, snkFinish, snkTorn,
                 numFramesInFile, dataFile, partial, pushed, numWritten,
                 outOfOrder, keyPressed, terminalWrites, pushesAfterStop,
                 framesFreed, exitCode, uFrameNumber, gapBudget,
                 s_expectedFrameNumber, filePos, fileSize, oem, srcMismatch,
                 firstWritten>>

\* The camera's frames, in any order and with any numbers missing or
\* repeated.
NextCallback == \E n \in FrameNums : FrameCallbackFunction(n)

InitCallback ==
  /\ Start
  /\ CallbackStart
  /\ CaptureOEMUnused
  /\ frameBudget = 0
  /\ raceBudget = 0
  /\ gapBudget = 0

SpecCallback == InitCallback /\ [][NextCallback]_vars

\* The same function statement by statement, called on several threads at
\* once. The API calls it on thread t for a frame numbered n.
CallbackInvoke(t, n) ==
  /\ cbPc[t] = "idle"
  /\ Len(cbHistory) + Cardinality({u \in CbThreads : cbPc[u] = "lock"})
       < MaxThreadCallbacks
  /\ cb' = [cb EXCEPT !.cbArg[t] = n, !.cbPc[t] = "lock"]
  /\ UNCHANGED <<s_status, s_tail, s_frames, s_frameQueue, streaming,
                 delivered, frameBudget, raceBudget, pcMain, pcSource, pcSink,
                 srcFrame, srcFinish, snkFrame, snkFinish, snkTorn,
                 numFramesInFile, dataFile, partial, pushed, numWritten,
                 outOfOrder, keyPressed, terminalWrites, pushesAfterStop,
                 framesFreed, exitCode, uFrameNumber, gapBudget,
                 s_expectedFrameNumber, filePos, fileSize, oem, srcMismatch,
                 firstWritten>>

\* CallbackLock with a lock that excludes nobody.
CallbackLock_NoExclusion(t) ==
  /\ cbPc[t] = "lock"
  /\ cb' = [cb EXCEPT !.gMutex = t,
                      !.cbHistory = Append(@, cbArg[t]),
                      !.cbPc[t] = "seed"]
  /\ UNCHANGED <<s_status, s_tail, s_frames, s_frameQueue, streaming,
                 delivered, frameBudget, raceBudget, pcMain, pcSource, pcSink,
                 srcFrame, srcFinish, snkFrame, snkFinish, snkTorn,
                 numFramesInFile, dataFile, partial, pushed, numWritten,
                 outOfOrder, keyPressed, terminalWrites, pushesAfterStop,
                 framesFreed, exitCode, uFrameNumber, gapBudget,
                 s_expectedFrameNumber, filePos, fileSize, oem, srcMismatch,
                 firstWritten>>

\* pthread_mutex_lock(&gMutex): returns once the mutex is free, holding it.
CallbackLock(t) ==
  /\ cbPc[t] = "lock"
  /\ gMutex = 0
  /\ cb' = [cb EXCEPT !.gMutex = t,
                      !.cbHistory = Append(@, cbArg[t]),
                      !.cbPc[t] = "seed"]
  /\ UNCHANGED <<s_status, s_tail, s_frames, s_frameQueue, streaming,
                 delivered, frameBudget, raceBudget, pcMain, pcSource, pcSink,
                 srcFrame, srcFinish, snkFrame, snkFinish, snkTorn,
                 numFramesInFile, dataFile, partial, pushed, numWritten,
                 outOfOrder, keyPressed, terminalWrites, pushesAfterStop,
                 framesFreed, exitCode, uFrameNumber, gapBudget,
                 s_expectedFrameNumber, filePos, fileSize, oem, srcMismatch,
                 firstWritten>>

\* if (!gReceivedFirstFrame) { gReceivedFirstFrame = TRUE;
\*                             gExpectedFrameNum = uFrameNumber; }
CallbackSeed(t) ==
  /\ cbPc[t] = "seed"
  /\ cb' = [cb EXCEPT
              !.gReceivedFirstFrame = TRUE,
              !.gExpectedFrameNum = IF gReceivedFirstFrame THEN @
                                                           ELSE cbArg[t],
              !.cbPc[t] = "count"]
  /\ UNCHANGED <<s_status, s_tail, s_frames, s_frameQueue, streaming,
                 delivered, frameBudget, raceBudget, pcMain, pcSource, pcSink,
                 srcFrame, srcFinish, snkFrame, snkFinish, snkTorn,
                 numFramesInFile, dataFile, partial, pushed, numWritten,
                 outOfOrder, keyPressed, terminalWrites, pushesAfterStop,
                 framesFreed, exitCode, uFrameNumber, gapBudget,
                 s_expectedFrameNumber, filePos, fileSize, oem, srcMismatch,
                 firstWritten>>

\* gFrameCount++;
CallbackCount(t) ==
  /\ cbPc[t] = "count"
  /\ cb' = [cb EXCEPT !.gFrameCount = @ + 1, !.cbPc[t] = "test"]
  /\ UNCHANGED <<s_status, s_tail, s_frames, s_frameQueue, streaming,
                 delivered, frameBudget, raceBudget, pcMain, pcSource, pcSink,
                 srcFrame, srcFinish, snkFrame, snkFinish, snkTorn,
                 numFramesInFile, dataFile, partial, pushed, numWritten,
                 outOfOrder, keyPressed, terminalWrites, pushesAfterStop,
                 framesFreed, exitCode, uFrameNumber, gapBudget,
                 s_expectedFrameNumber, filePos, fileSize, oem, srcMismatch,
                 firstWritten>>

\* if (pFrameDesc->uFrameNumber < gExpectedFrameNum)
CallbackTest(t) ==
  /\ cbPc[t] = "test"
  /\ cb' = [cb EXCEPT
              !.cbPc[t] = IF cbArg[t] < gExpectedFrameNum THEN "late"
                                                          ELSE "delta"]
  /\ UNCHANGED <<s_status, s_tail, s_frames, s_frameQueue, streaming,
                 delivered, frameBudget, raceBudget, pcMain, pcSource, pcSink,
                 srcFrame, srcFinish, snkFrame, snkFinish, snkTorn,
                 numFramesInFile, dataFile, partial, pushed, numWritten,
                 outOfOrder, keyPressed, terminalWrites, pushesAfterStop,
                 framesFreed, exitCode, uFrameNumber, gapBudget,
                 s_expectedFrameNumber, filePos, fileSize, oem, srcMismatch,
                 firstWritten>>

\* gLostFrameCount--;
CallbackLate(t) ==
  /\ cbPc[t] = "late"
  /\ cb' = [cb EXCEPT !.gLostFrameCount = @ - 1, !.cbPc[t] = "unlock"]
  /\ UNCHANGED <<s_status, s_tail, s_frames, s_frameQueue, streaming,
                 delivered, frameBudget, raceBudget, pcMain, pcSource, pcSink,
                 srcFrame, srcFinish, snkFrame, snkFinish, snkTorn,
                 numFramesInFile, dataFile, partial, pushed, numWritten,
                 outOfOrder, keyPressed, terminalWrites, pushesAfterStop,
                 framesFreed, exitCode, uFrameNumber, gapBudget,
                 s_expectedFrameNumber, filePos, fileSize, oem, srcMismatch,
                 firstWritten>>

\* frameNumDelta = pFrameDesc->uFrameNumber - gExpectedFrameNum;
CallbackDelta(t) ==
  /\ cbPc[t] = "delta"
  /\ cb' = [cb EXCEPT !.frameNumDelta[t] = cbArg[t] - gExpectedFrameNum,
                      !.cbPc[t] = "add"]
  /\ UNCHANGED <<s_status, s_tail, s_frames, s_frameQueue, streaming,
                 delivered, frameBudget, raceBudget, pcMain, pcSource, pcSink,
                 srcFrame, srcFinish, snkFrame, snkFinish, snkTorn,
                 numFramesInFile, dataFile, partial, pushed, numWritten,
                 outOfOrder, keyPressed, terminalWrites, pushesAfterStop,
                 framesFreed, exitCode, uFrameNumber, gapBudget,
                 s_expectedFrameNumber, filePos, fileSize, oem, srcMismatch,
                 firstWritten>>

\* gLostFrameCount += frameNumDelta;
CallbackAddLost(t) ==
  /\ cbPc[t] = "add"
  /\ cb' = [cb EXCEPT !.gLostFrameCount = @ + frameNumDelta[t],
                      !.cbPc[t] = "expect"]
  /\ UNCHANGED <<s_status, s_tail, s_frames, s_frameQueue, streaming,
                 delivered, frameBudget, raceBudget, pcMain, pcSource, pcSink,
                 srcFrame, srcFinish, snkFrame, snkFinish, snkTorn,
                 numFramesInFile, dataFile, partial, pushed, numWritten,
                 outOfOrder, keyPressed, terminalWrites, pushesAfterStop,
                 framesFreed, exitCode, uFrameNumber, gapBudget,
                 s_expectedFrameNumber, filePos, fileSize, oem, srcMismatch,
                 firstWritten>>

\* gExpectedFrameNum = pFrameDesc->uFrameNumber + 1;
CallbackSetExpected(t) ==
  /\ cbPc[t] = "expect"
  /\ cb' = [cb EXCEPT !.gExpectedFrameNum = cbArg[t] + 1,
                      !.cbPc[t] = "unlock"]
  /\ UNCHANGED <<s_status, s_tail, s_frames, s_frameQueue, streaming,
                 delivered, frameBudget, raceBudget, pcMain, pcSource, pcSink,
                 srcFrame, srcFinish, snkFrame, snkFinish, snkTorn,
                 numFramesInFile, dataFile, partial, pushed, numWritten,
                 outOfOrder, keyPressed, terminalWrites, pushesAfterStop,
                 framesFreed, exitCode, uFrameNumber, gapBudget,
                 s_expectedFrameNumber, filePos, fileSize, oem, srcMismatch,
                 firstWritten>>

\* pthread_mutex_unlock(&gMutex); return ApiSuccess;
CallbackUnlock(t) ==
  /\ cbPc[t] = "unlock"
  /\ cb' = [cb EXCEPT !.gMutex = 0,
                      !.cbArg[t] = 0,
                      !.frameNumDelta[t] = 0,
                      !.cbPc[t] = "idle"]
  /\ UNCHANGED <<s_status, s_tail, s_frames, s_frameQueue, streaming,
                 delivered, frameBudget, raceBudget, pcMain, pcSource, pcSink,
                 srcFrame, srcFinish, snkFrame, snkFinish, snkTorn,
                 numFramesInFile, dataFile, partial, pushed, numWritten,
                 outOfOrder, keyPressed, terminalWrites, pushesAfterStop,
                 framesFreed, exitCode, uFrameNumber, gapBudget,
                 s_expectedFrameNumber, filePos, fileSize, oem, srcMismatch,
                 firstWritten>>

callbackThread(t) ==
  \/ \E n \in FrameNums : CallbackInvoke(t, n)
  \/ CallbackLock(t)
  \/ CallbackSeed(t)
  \/ CallbackCount(t)
  \/ CallbackTest(t)
  \/ CallbackLate(t)
  \/ CallbackDelta(t)
  \/ CallbackAddLost(t)
  \/ CallbackSetExpected(t)
  \/ CallbackUnlock(t)

NextCallbackThreads == \E t \in CbThreads : callbackThread(t)

SpecCallbackThreads == InitCallback /\ [][NextCallbackThreads]_vars

\* ------------------------------------------------------------ captureOEM
\* The Camera Select control of captureOEM: scanThread, which lists the
\* cameras on the bus every now and then, and the GTK main thread, which
\* runs NewCameraSelected for the user and rebuildCameraSelectCombo as an
\* idle callback. The members of PxLCameraSelect are fields of oem.
bus == oem.bus                     \* serial numbers of the cameras plugged in
gCamera == oem.gCamera             \* serial of the grabbed camera, 0 if NULL
m_connectedCameraList == oem.m_connectedCameraList  \* CameraSerialNum of each
m_comboCameraList == oem.m_comboCameraList
m_selectedCamera == oem.m_selectedCamera
m_requestedCamera == oem.m_requestedCamera
m_rebuildInProgress == oem.m_rebuildInProgress
m__CSConnectedCameraList == oem.m__CSConnectedCameraList  \* "free" or holder
idleRebuilds == oem.idleRebuilds   \* rebuildCameraSelectCombo idles queued
pcScan == oem.pcScan               \* where scanThread is
numCameras == oem.numCameras       \* scanForCameras' local
pcGtk == oem.pcGtk                 \* where the GTK main thread is
rbPartial == oem.rbPartial         \* rebuildCameraSelectCombo's first branch
rbIndex == oem.rbIndex             \* rebuildCameraSelectCombo's i

\* Serial numbers of the cameras, and the values a ULONG read from the
\* list or from an uninitialised member can show: 0, a serial number, or
\* something else.
Cameras == 1 .. MaxCameras
OtherValue == MaxCameras + 1
UlongValues == 0 .. OtherValue

\* PxLCameraSelect as its constructor leaves it, scanThread just created:
\* both lists cleared, the mutex initialised, no camera grabbed. The
\* constructor initialises neither m_selectedCamera nor
\* m_rebuildInProgress: they hold whatever the allocation held.
CameraSelectStart ==
  \E plugged \in SUBSET Cameras, selected \in UlongValues,
     rebuilding \in BOOLEAN :
    oem = [part |-> "cameraSelect",
           bus |-> plugged,
           gCamera |-> 0,
           m_connectedCameraList |-> <<>>,
           m_comboCameraList |-> <<>>,
           m_selectedCamera |-> selected,
           m_requestedCamera |-> 0,
           m_rebuildInProgress |-> rebuilding,
           m__CSConnectedCameraList |-> "free",
           idleRebuilds |-> 0,
           pcScan |-> "start",
           numCameras |-> 0,
           pcGtk |-> "loop",
           rbPartial |-> FALSE,
           rbIndex |-> 0]

\* A camera is plugged in or pulled out.
BusPlug(c) ==
  /\ c \notin bus
  /\ oem' = [oem EXCEPT !.bus = @ \cup {c}]
  /\ UNCHANGED <<s_status, s_tail, s_frames, s_frameQueue, streaming,
                 delivered, frameBudget, raceBudget, pcMain, pcSource, pcSink,
                 srcFrame, srcFinish, snkFrame, snkFinish, snkTorn,
                 numFramesInFile, dataFile, partial, pushed, numWritten,
                 outOfOrder, keyPressed, terminalWrites, pushesAfterStop,
                 framesFreed, exitCode, uFrameNumber, gapBudget,
                 s_expectedFrameNumber, filePos, fileSize, cb, srcMismatch,
                 firstWritten>>

BusUnplug(c) ==
  /\ c \in bus
  /\ oem' = [oem EXCEPT !.bus = @ \ {c}]
  /\ UNCHANGED <<s_status, s_tail, s_frames, s_frameQueue, streaming,
                 delivered, frameBudget, raceBudget, pcMain, pcSource, pcSink,
                 srcFrame, srcFinish, snkFrame, snkFinish, snkTorn,
                 numFramesInFile, dataFile, partial, pushed, numWritten,
                 outOfOrder, keyPressed, terminalWrites, pushesAfterStop,
                 framesFreed, exitCode, uFrameNumber, gapBudget,
                 s_expectedFrameNumber, filePos, fileSize, cb, srcMismatch,
                 firstWritten>>

\* The cameras of S in the order PxLGetNumberCamerasEx lists them.
RECURSIVE Enumerate(_)
Enumerate(S) ==
  IF S = {} THEN <<>>
  ELSE LET c == CHOOSE x \in S : \A y \in S : x <= y
       IN <<c>> \o Enumerate(S \ {c})

\* gdk_threads_add_idle ((GSourceFunc)rebuildCameraSelectCombo, ...): there
\* is room in the idle queue.
CanQueueRebuild == idleRebuilds < MaxIdle

\* PxLCameraSelect::isConnected
isConnected(serialNum) ==
  \E i \in 1 .. Len(m_connectedCameraList) :
    m_connectedCameraList[i] = serialNum

\* scanThread Step 1: no camera requested, and a first rebuild is queued.
ScanStart ==
  /\ pcScan = "start"
  /\ CanQueueRebuild
  /\ oem' = [oem EXCEPT !.m_requestedCamera = 0,
                        !.idleRebuilds = @ + 1,
                        !.pcScan = "poll"]
  /\ UNCHANGED <<s_status, s_tail, s_frames, s_frameQueue, streaming,
                 delivered, frameBudget, raceBudget, pcMain, pcSource, pcSink,
                 srcFrame, srcFinish, snkFrame, snkFinish, snkTorn,
                 numFramesInFile, dataFile, partial, pushed, numWritten,
                 outOfOrder, keyPressed, terminalWrites, pushesAfterStop,
                 framesFreed, exitCode, uFrameNumber, gapBudget,
                 s_expectedFrameNumber, filePos, fileSize, cb, srcMismatch,
                 firstWritten>>

\* The loop comes round to a scan (at once with no camera, on a later poll
\* with one): AutoCS localCS takes the mutex.
ScanLock ==
  /\ pcScan = "poll"
  /\ m__CSConnectedCameraList = "free"
  /\ oem' = [oem EXCEPT !.m__CSConnectedCameraList = "scan",
                        !.pcScan = "clear"]
  /\ UNCHANGED <<s_status, s_tail, s_frames, s_frameQueue, streaming,
                 delivered, frameBudget, raceBudget, pcMain, pcSource, pcSink,
                 srcFrame, srcFinish, snkFrame, snkFinish, snkTorn,
                 numFramesInFile, dataFile, partial, pushed, numWritten,
                 outOfOrder, keyPressed, terminalWrites, pushesAfterStop,
                 framesFreed, exitCode, uFrameNumber, gapBudget,
                 s_expectedFrameNumber, filePos, fileSize, cb, srcMismatch,
                 firstWritten>>

\* scanForCameras Step 1: m_connectedCameraList.clear()
ScanClear ==
  /\ pcScan = "clear"
  /\ oem' = [oem EXCEPT !.m_connectedCameraList = <<>>,
                        !.pcScan = "count"]
  /\ UNCHANGED <<s_status, s_tail, s_frames, s_frameQueue, streaming,
                 delivered, frameBudget, raceBudget, pcMain, pcSource, pcSink,
                 srcFrame, srcFinish, snkFrame, snkFinish, snkTorn,
                 numFramesInFile, dataFile, partial, pushed, numWritten,
                 outOfOrder, keyPressed, terminalWrites, pushesAfterStop,
                 framesFreed, exitCode, uFrameNumber, gapBudget,
                 s_expectedFrameNumber, filePos, fileSize, cb, srcMismatch,
                 firstWritten>>

\* scanForCameras Step 2: PxLGetNumberCamerasEx (NULL, &numCameras) fails,
\* or reports the number of cameras on the bus.
ScanCount ==
  /\ pcScan = "count"
  /\ \/ oem' = [oem EXCEPT !.pcScan = "unlock"]
     \/ oem' = [oem EXCEPT !.numCameras = Cardinality(bus),
                           !.pcScan = IF bus # {} THEN "resize"
                                                  ELSE "decide"]
  /\ UNCHANGED <<s_status, s_tail, s_frames, s_frameQueue, streaming,
                 delivered, frameBudget, raceBudget, pcMain, pcSource, pcSink,
                 srcFrame, srcFinish, snkFrame, snkFinish, snkTorn,
                 numFramesInFile, dataFile, partial, pushed, numWritten,
                 outOfOrder, keyPressed, terminalWrites, pushesAfterStop,
                 framesFreed, exitCode, uFrameNumber, gapBudget,
                 s_expectedFrameNumber, filePos, fileSize, cb, srcMismatch,
                 firstWritten>>

\* m_connectedCameraList.resize(numCameras): zeroed entries.
ScanResize ==
  /\ pcScan = "resize"
  /\ oem' = [oem EXCEPT
               !.m_connectedCameraList = [i \in 1 .. numCameras |-> 0],
               !.pcScan = "fill"]
  /\ UNCHANGED <<s_status, s_tail, s_frames, s_frameQueue, streaming,
                 delivered, frameBudget, raceBudget, pcMain, pcSource, pcSink,
                 srcFrame, srcFinish, snkFrame, snkFinish, snkTorn,
                 numFramesInFile, dataFile, partial, pushed, numWritten,
                 outOfOrder, keyPressed, terminalWrites, pushesAfterStop,
                 framesFreed, exitCode, uFrameNumber, gapBudget,
                 s_expectedFrameNumber, filePos, fileSize, cb, srcMismatch,
                 firstWritten>>

\* PxLGetNumberCamerasEx (&m_connectedCameraList[0], &numCameras) fills the
\* entries, or fails (always, if the bus has changed since the count).
ScanFill ==
  /\ pcScan = "fill"
  /\ \/ /\ Cardinality(bus) = numCameras
        /\ oem' = [oem EXCEPT !.m_connectedCameraList = Enumerate(bus),
                              !.pcScan = "decide"]
     \/ oem' = [oem EXCEPT !.pcScan = "errclear"]
  /\ UNCHANGED <<s_status, s_tail, s_frames, s_frameQueue, streaming,
                 delivered, frameBudget, raceBudget, pcMain, pcSource, pcSink,
                 srcFrame, srcFinish, snkFrame, snkFinish, snkTorn,
                 numFramesInFile, dataFile, partial, pushed, numWritten,
                 outOfOrder, keyPressed, terminalWrites, pushesAfterStop,
                 framesFreed, exitCode, uFrameNumber, gapBudget,
                 s_expectedFrameNumber, filePos, fileSize, cb, srcMismatch,
                 firstWritten>>

\* scanForCameras Step 3 (OnError): m_connectedCameraList.clear(); the scan
\* has failed and scanThread does nothing with it.
ScanErrorClear ==
  /\ pcScan = "errclear"
  /\ oem' = [oem EXCEPT !.m_connectedCameraList = <<>>,
                        !.pcScan = "unlock"]
  /\ UNCHANGED <<s_status, s_tail, s_frames, s_frameQueue, streaming,
                 delivered, frameBudget, raceBudget, pcMain, pcSource, pcSink,
                 srcFrame, srcFinish, snkFrame, snkFinish, snkTorn,
                 numFramesInFile, dataFile, partial, pushed, numWritten,
                 outOfOrder, keyPressed, terminalWrites, pushesAfterStop,
                 framesFreed, exitCode, uFrameNumber, gapBudget,
                 s_expectedFrameNumber, filePos, fileSize, cb, srcMismatch,
                 firstWritten>>

\* scanThread Steps 4 and 5, after a scan that succeeded. With no camera
\* grabbed the listed cameras are tried in turn (GrabCamera throws for a
\* camera that is gone or busy); a grabbed camera that is no longer listed
\* is released; a rebuild is queued unless no camera could be grabbed.
ScanDecide ==
  /\ pcScan = "decide"
  /\ IF gCamera = 0 /\ Len(m_connectedCameraList) > 0
       THEN \/ \E k \in 1 .. Len(m_connectedCameraList) :
                 /\ m_connectedCameraList[k] \in bus
                 /\ CanQueueRebuild
                 /\ oem' = [oem EXCEPT
                              !.gCamera = m_connectedCameraList[k],
                              !.m_requestedCamera = m_connectedCameraList[k],
                              !.idleRebuilds = @ + 1,
                              !.pcScan = "unlock"]
            \/ oem' = [oem EXCEPT !.pcScan = "unlock"]
       ELSE IF gCamera # 0 /\ ~ isConnected(gCamera)
         THEN /\ CanQueueRebuild
              /\ oem' = [oem EXCEPT !.gCamera = 0,
                                    !.m_requestedCamera = 0,
                                    !.idleRebuilds = @ + 1,
                                    !.pcScan = "unlock"]
         ELSE IF gCamera # 0
           THEN /\ CanQueueRebuild
                /\ oem' = [oem EXCEPT !.m_requestedCamera = gCamera,
                                      !.idleRebuilds = @ + 1,
                                      !.pcScan = "unlock"]
           ELSE oem' = [oem EXCEPT !.pcScan = "unlock"]
  /\ UNCHANGED <<s_status, s_tail, s_frames, s_frameQueue, streaming,
                 delivered, frameBudget, raceBudget, pcMain, pcSource, pcSink,
                 srcFrame, srcFinish, snkFrame, snkFinish, snkTorn,
                 numFramesInFile, dataFile, partial, pushed, numWritten,
                 outOfOrder, keyPressed, terminalWrites, pushesAfterStop,
                 framesFreed, exitCode, uFrameNumber, gapBudget,
                 s_expectedFrameNumber, filePos, fileSize, cb, srcMismatch,
                 firstWritten>>

\* localCS goes out of scope; usleep; the next poll.
ScanUnlock ==
  /\ pcScan = "unlock"
  /\ oem' = [oem EXCEPT !.m__CSConnectedCameraList = "free",
                        !.numCameras = 0,
                        !.pcScan = "poll"]
  /\ UNCHANGED <<s_status, s_tail, s_frames, s_frameQueue, streaming,
                 delivered, frameBudget, raceBudget, pcMain, pcSource, pcSink,
                 srcFrame, srcFinish, snkFrame, snkFinish, snkTorn,
                 numFramesInFile, dataFile, partial, pushed, numWritten,
                 outOfOrder, keyPressed, terminalWrites, pushesAfterStop,
                 framesFreed, exitCode, uFrameNumber, gapBudget,
                 s_expectedFrameNumber, filePos, fileSize, cb, srcMismatch,
                 firstWritten>>

scanThread ==
  \/ ScanStart
  \/ ScanLock
  \/ ScanClear
  \/ ScanCount
  \/ ScanResize
  \/ ScanFill
  \/ ScanErrorClear
  \/ ScanDecide
  \/ ScanUnlock

\* scanThread is between taking the mutex and the end of scanForCameras,
\* about to clear, resize or fill the list.
ScanWritesList == pcScan \in {"clear", "resize", "fill", "errclear"}

\* NewCameraSelected, the user having picked an entry of the combo box: not
\* ignored as part of a rebuild, it takes the mutex.
NewCameraSelected ==
  /\ pcGtk = "loop"
  /\ ~ m_rebuildInProgress
  /\ CanQueueRebuild
  /\ m__CSConnectedCameraList = "free"
  /\ oem' = [oem EXCEPT !.m__CSConnectedCameraList = "gtk",
                        !.pcGtk = "selected"]
  /\ UNCHANGED <<s_status, s_tail, s_frames, s_frameQueue, streaming,
                 delivered, frameBudget, raceBudget, pcMain, pcSource, pcSink,
                 srcFrame, srcFinish, snkFrame, snkFinish, snkTorn,
                 numFramesInFile, dataFile, partial, pushed, numWritten,
                 outOfOrder, keyPressed, terminalWrites, pushesAfterStop,
                 framesFreed, exitCode, uFrameNumber, gapBudget,
                 s_expectedFrameNumber, filePos, fileSize, cb, srcMismatch,
                 firstWritten>>

\* What gCamera is once NewCameraSelected has released a camera the user
\* no longer wants.
AfterRelease(selectedCamera) ==
  IF selectedCamera = 0 \/ gCamera # selectedCamera THEN 0 ELSE gCamera

\* The rest of NewCameraSelected for the entry selectedCamera (0 for 'No
\* Camera'): release, grab the entry if it is in the connected list
\* (GrabCamera may throw), request it, queue a rebuild, drop the mutex.
NewCameraSelectedBody(selectedCamera) ==
  /\ pcGtk = "selected"
  /\ \E grabbed \in
         IF selectedCamera # 0 /\ isConnected(selectedCamera)
           THEN {selectedCamera, AfterRelease(selectedCamera)}
           ELSE {AfterRelease(selectedCamera)} :
       oem' = [oem EXCEPT !.gCamera = grabbed,
                          !.m_requestedCamera = selectedCamera,
                          !.idleRebuilds = @ + 1,
                          !.m__CSConnectedCameraList = "free",
                          !.pcGtk = "loop"]
  /\ UNCHANGED <<s_status, s_tail, s_frames, s_frameQueue, streaming,
                 delivered, frameBudget, raceBudget, pcMain, pcSource, pcSink,
                 srcFrame, srcFinish, snkFrame, snkFinish, snkTorn,
                 numFramesInFile, dataFile, partial, pushed, numWritten,
                 outOfOrder, keyPressed, terminalWrites, pushesAfterStop,
                 framesFreed, exitCode, uFrameNumber, gapBudget,
                 s_expectedFrameNumber, filePos, fileSize, cb, srcMismatch,
                 firstWritten>>

\* The entries the combo box offers: 'No Camera' and m_comboCameraList.
ComboChoices ==
  {0} \cup {m_comboCameraList[i] : i \in 1 .. Len(m_comboCameraList)}

\* The main loop runs a queued rebuildCameraSelectCombo: the function's
\* first lines, which choose between the partial and the full rebuild.
RebuildBegin ==
  /\ pcGtk = "loop"
  /\ idleRebuilds > 0
  /\ oem' = [oem EXCEPT
               !.idleRebuilds = @ - 1,
               !.rbPartial = (m_selectedCamera = m_requestedCamera
                                /\ m_selectedCamera # 0),
               !.m_rebuildInProgress = TRUE,
               !.pcGtk = "rb_clear"]
  /\ UNCHANGED <<s_status, s_tail, s_frames, s_frameQueue, streaming,
                 delivered, frameBudget, raceBudget, pcMain, pcSource, pcSink,
                 srcFrame, srcFinish, snkFrame, snkFinish, snkTorn,
                 numFramesInFile, dataFile, partial, pushed, numWritten,
                 outOfOrder, keyPressed, terminalWrites, pushesAfterStop,
                 framesFreed, exitCode, uFrameNumber, gapBudget,
                 s_expectedFrameNumber, filePos, fileSize, cb, srcMismatch,
                 firstWritten>>

\* m_comboCameraList.clear(), then the requested camera first: always in
\* the partial rebuild, if there is one in the full rebuild.
RebuildClear ==
  /\ pcGtk = "rb_clear"
  /\ oem' = [oem EXCEPT
               !.m_comboCameraList =
                  IF rbPartial \/ m_requestedCamera # 0
                    THEN <<m_requestedCamera>> ELSE <<>>,
               !.rbIndex = 0,
               !.pcGtk = IF rbPartial THEN "rb_loop" ELSE "rb_select"]
  /\ UNCHANGED <<s_status, s_tail, s_frames, s_frameQueue, streaming,
                 delivered, frameBudget, raceBudget, pcMain, pcSource, pcSink,
                 srcFrame, srcFinish, snkFrame, snkFinish, snkTorn,
                 numFramesInFile, dataFile, partial, pushed, numWritten,
                 outOfOrder, keyPressed, terminalWrites, pushesAfterStop,
                 framesFreed, exitCode, uFrameNumber, gapBudget,
                 s_expectedFrameNumber, filePos, fileSize, cb, srcMismatch,
                 firstWritten>>

\* Full rebuild: m_selectedCamera = m_requestedCamera
RebuildSelect ==
  /\ pcGtk = "rb_select"
  /\ oem' = [oem EXCEPT !.m_selectedCamera = m_requestedCamera,
                        !.pcGtk = "rb_loop"]
  /\ UNCHANGED <<s_status, s_tail, s_frames, s_frameQueue, streaming,
                 delivered, frameBudget, raceBudget, pcMain, pcSource, pcSink,
                 srcFrame, srcFinish, snkFrame, snkFinish, snkTorn,
                 numFramesInFile, dataFile, partial, pushed, numWritten,
                 outOfOrder, keyPressed, terminalWrites, pushesAfterStop,
                 framesFreed, exitCode, uFrameNumber, gapBudget,
                 s_expectedFrameNumber, filePos, fileSize, cb, srcMismatch,
                 firstWritten>>

\* for (i = 0; i < (gint) m_connectedCameraList.size(); i++)
RebuildLoopTest ==
  /\ pcGtk = "rb_loop"
  /\ oem' = [oem EXCEPT
               !.pcGtk = IF rbIndex < Len(m_connectedCameraList)
                           THEN "rb_compare" ELSE "rb_end"]
  /\ UNCHANGED <<s_status, s_tail, s_frames, s_frameQueue, streaming,
                 delivered, frameBudget, raceBudget, pcMain, pcSource, pcSink,
                 srcFrame, srcFinish, snkFrame, snkFinish, snkTorn,
                 numFramesInFile, dataFile, partial, pushed, numWritten,
                 outOfOrder, keyPressed, terminalWrites, pushesAfterStop,
                 framesFreed, exitCode, uFrameNumber, gapBudget,
                 s_expectedFrameNumber, filePos, fileSize, cb, srcMismatch,
                 firstWritten>>

\* What a read of m_connectedCameraList[i].CameraSerialNum gives: the
\* entry; anything, if scanThread is rewriting the list or has shortened
\* it since the loop test.
ListRead(i) ==
  IF i < Len(m_connectedCameraList) /\ ~ ScanWritesList
    THEN {m_connectedCameraList[i + 1]}
    ELSE UlongValues

\* if (m_connectedCameraList[i].CameraSerialNum == m_requestedCamera) continue;
RebuildCompare ==
  /\ pcGtk = "rb_compare"
  /\ \E serial \in ListRead(rbIndex) :
       oem' = IF serial = m_requestedCamera
                THEN [oem EXCEPT !.rbIndex = @ + 1, !.pcGtk = "rb_loop"]
                ELSE [oem EXCEPT !.pcGtk = "rb_push"]
  /\ UNCHANGED <<s_status, s_tail, s_frames, s_frameQueue, streaming,
                 delivered, frameBudget, raceBudget, pcMain, pcSource, pcSink,
                 srcFrame, srcFinish, snkFrame, snkFinish, snkTorn,
                 numFramesInFile, dataFile, partial, pushed, numWritten,
                 outOfOrder, keyPressed, terminalWrites, pushesAfterStop,
                 framesFreed, exitCode, uFrameNumber, gapBudget,
                 s_expectedFrameNumber, filePos, fileSize, cb, srcMismatch,
                 firstWritten>>

\* m_comboCameraList.push_back (m_connectedCameraList[i].CameraSerialNum);
\* a read past the end of a list that has been reallocated can fault.
RebuildPush ==
  /\ pcGtk = "rb_push"
  /\ \/ \E serial \in ListRead(rbIndex) :
          oem' = [oem EXCEPT !.m_comboCameraList = Append(@, serial),
                             !.rbIndex = @ + 1,
                             !.pcGtk = "rb_loop"]
     \/ /\ rbIndex >= Len(m_connectedCameraList)
        /\ oem' = [oem EXCEPT !.pcGtk = "fault"]
  /\ UNCHANGED <<s_status, s_tail, s_frames, s_frameQueue, streaming,
                 delivered, frameBudget, raceBudget, pcMain, pcSource, pcSink,
                 srcFrame, srcFinish, snkFrame, snkFinish, snkTorn,
                 numFramesInFile, dataFile, partial, pushed, numWritten,
                 outOfOrder, keyPressed, terminalWrites, pushesAfterStop,
                 framesFreed, exitCode, uFrameNumber, gapBudget,
                 s_expectedFrameNumber, filePos, fileSize, cb, srcMismatch,
                 firstWritten>>

\* m_rebuildInProgress = false; return false;
RebuildEnd ==
  /\ pcGtk = "rb_end"
  /\ oem' = [oem EXCEPT !.m_rebuildInProgress = FALSE,
                        !.rbIndex = 0,
                        !.rbPartial = FALSE,
                        !.pcGtk = "loop"]
  /\ UNCHANGED <<s_status, s_tail, s_frames, s_frameQueue, streaming,
                 delivered, frameBudget, raceBudget, pcMain, pcSource, pcSink,
                 srcFrame, srcFinish, snkFrame, snkFinish, snkTorn,
                 numFramesInFile, dataFile, partial, pushed, numWritten,
                 outOfOrder, keyPressed, terminalWrites, pushesAfterStop,
                 framesFreed, exitCode, uFrameNumber, gapBudget,
                 s_expectedFrameNumber, filePos, fileSize, cb, srcMismatch,
                 firstWritten>>

gtkThread ==
  \/ NewCameraSelected
  \/ \E selectedCamera \in ComboChoices :
       NewCameraSelectedBody(selectedCamera)
  \/ RebuildBegin
  \/ RebuildClear
  \/ RebuildSelect
  \/ RebuildLoopTest
  \/ RebuildCompare
  \/ RebuildPush
  \/ RebuildEnd

NextCameraSelect ==
  \/ \E c \in Cameras : BusPlug(c) \/ BusUnplug(c)
  \/ scanThread
  \/ gtkThread

InitCameraSelect ==
  /\ Start
  /\ CallbackUnused
  /\ CameraSelectStart
  /\ frameBudget = 0
  /\ raceBudget = 0
  /\ gapBudget = 0

SpecCameraSelect == InitCameraSelect /\ [][NextCameraSelect]_vars

\* A tab of captureOEM (PxLLink; PxLInfo has the same three functions): the
\* GTK main thread runs activate, deactivate, refreshRequired and the idle
\* callbacks one at a time, the idle callbacks in the order they were
\* queued. The counter is kept as the residue nearest 0: -1 is the value
\* an unsigned counter shows after a decrement at 0 (all bits set).
m_numRefreshRequestsOutstanding == oem.m_numRefreshRequestsOutstanding
activeTab == oem.activeTab         \* IsActiveTab (LinkTab)
idleQueue == oem.idleQueue         \* gdk_threads_add_idle, oldest first

\* PxLTab () : m_numRefreshRequestsOutstanding (0), another tab showing.
TabStart ==
  \E camera \in {0, 1} :
    oem = [part |-> "tab",
           m_numRefreshRequestsOutstanding |-> 0,
           activeTab |-> FALSE,
           gCamera |-> camera,
           idleQueue |-> <<>>]

\* The callbacks that grey the controls out and those that refresh them.
DeactivateIdles == <<"MaxPacketSizeDeactivate", "BwLimitDeactivate">>
ActivateIdles == <<"MaxPacketSizeActivate", "BwLimitActivate">>

\* A camera is grabbed or released.
TabCameraChange ==
  /\ oem' = [oem EXCEPT !.gCamera = 1 - @]
  /\ UNCHANGED <<s_status, s_tail, s_frames, s_frameQueue, streaming,
                 delivered, frameBudget, raceBudget, pcMain, pcSource, pcSink,
                 srcFrame, srcFinish, snkFrame, snkFinish, snkTorn,
                 numFramesInFile, dataFile, partial, pushed, numWritten,
                 outOfOrder, keyPressed, terminalWrites, pushesAfterStop,
                 framesFreed, exitCode, uFrameNumber, gapBudget,
                 s_expectedFrameNumber, filePos, fileSize, cb, srcMismatch,
                 firstWritten>>

\* PxLLink::refreshRequired
refreshRequired(noCamera) ==
  /\ IF activeTab
       THEN /\ Len(idleQueue) + 3 <= MaxTabIdle
            /\ oem' = [oem EXCEPT
                         !.idleQueue =
                            @ \o (IF noCamera THEN DeactivateIdles
                                              ELSE ActivateIdles)
                              \o <<"RefreshComplete">>,
                         !.m_numRefreshRequestsOutstanding = @ + 1]
       ELSE oem' = [oem EXCEPT
                      !.m_numRefreshRequestsOutstanding =
                         IF @ = 0 THEN 1 ELSE @]
  /\ UNCHANGED <<s_status, s_tail, s_frames, s_frameQueue, streaming,
                 delivered, frameBudget, raceBudget, pcMain, pcSource, pcSink,
                 srcFrame, srcFinish, snkFrame, snkFinish, snkTorn,
                 numFramesInFile, dataFile, partial, pushed, numWritten,
                 outOfOrder, keyPressed, terminalWrites, pushesAfterStop,
                 framesFreed, exitCode, uFrameNumber, gapBudget,
                 s_expectedFrameNumber, filePos, fileSize, cb, srcMismatch,
                 firstWritten>>

\* What activate queues ahead of RefreshComplete.
ActivateRefresh ==
  IF gCamera # 0
    THEN IF m_numRefreshRequestsOutstanding # 0 THEN ActivateIdles ELSE <<>>
    ELSE DeactivateIdles

\* PxLLink::activate: the user has selected this tab.
activate ==
  /\ ~ activeTab
  /\ Len(idleQueue) + Len(ActivateRefresh) + 1 <= MaxTabIdle
  /\ oem' = [oem EXCEPT
               !.activeTab = TRUE,
               !.idleQueue = @ \o ActivateRefresh \o <<"RefreshComplete">>,
               !.m_numRefreshRequestsOutstanding = 1]
  /\ UNCHANGED <<s_status, s_tail, s_frames, s_frameQueue, streaming,
                 delivered, frameBudget, raceBudget, pcMain, pcSource, pcSink,
                 srcFrame, srcFinish, snkFrame, snkFinish, snkTorn,
                 numFramesInFile, dataFile, partial, pushed, numWritten,
                 outOfOrder, keyPressed, terminalWrites, pushesAfterStop,
                 framesFreed, exitCode, uFrameNumber, gapBudget,
                 s_expectedFrameNumber, filePos, fileSize, cb, srcMismatch,
                 firstWritten>>

\* PxLLink::deactivate: the user has selected another tab.
deactivate ==
  /\ activeTab
  /\ oem' = [oem EXCEPT !.activeTab = FALSE]
  /\ UNCHANGED <<s_status, s_tail, s_frames, s_frameQueue, streaming,
                 delivered, frameBudget, raceBudget, pcMain, pcSource, pcSink,
                 srcFrame, srcFinish, snkFrame, snkFinish, snkTorn,
                 numFramesInFile, dataFile, partial, pushed, numWritten,
                 outOfOrder, keyPressed, terminalWrites, pushesAfterStop,
                 framesFreed, exitCode, uFrameNumber, gapBudget,
                 s_expectedFrameNumber, filePos, fileSize, cb, srcMismatch,
                 firstWritten>>

\* The main loop runs the oldest idle callback: RefreshComplete decrements
\* the counter, the others only touch the widgets.
RunIdle ==
  /\ idleQueue # <<>>
  /\ oem' = [oem EXCEPT
               !.idleQueue = Tail(@),
               !.m_numRefreshRequestsOutstanding =
                  IF Head(idleQueue) = "RefreshComplete" THEN @ - 1 ELSE @]
  /\ UNCHANGED <<s_status, s_tail, s_frames, s_frameQueue, streaming,
                 delivered, frameBudget, raceBudget, pcMain, pcSource, pcSink,
                 srcFrame, srcFinish, snkFrame, snkFinish, snkTorn,
                 numFramesInFile, dataFile, partial, pushed, numWritten,
                 outOfOrder, keyPressed, terminalWrites, pushesAfterStop,
                 framesFreed, exitCode, uFrameNumber, gapBudget,
                 s_expectedFrameNumber, filePos, fileSize, cb, srcMismatch,
                 firstWritten>>

NextTab ==
  \/ TabCameraChange
  \/ \E noCamera \in BOOLEAN : refreshRequired(noCamera)
  \/ activate
  \/ deactivate
  \/ RunIdle

InitTab ==
  /\ Start
  /\ CallbackUnused
  /\ TabStart
  /\ frameBudget = 0
  /\ raceBudget = 0
  /\ gapBudget = 0

SpecTab == InitTab /\ [][NextTab]_vars

\* WriteConfigFile of captureOEM (helpers.cpp), Steps 1 to 5, on one
\* camera. Feature ids are 0 .. FeaturesTotal - 1; two of them stand for
\* FEATURE_GPIO and FEATURE_MEMORY_CHANNEL.
FEATURE_GPIO == 1
FEATURE_MEMORY_CHANNEL == 2
SizeofInt == 4
SizeofFloat == 4
SizeofFeatureData == 16           \* three U32 and one float

pcConfig == oem.pcConfig
featureId == oem.featureId
nSupported == oem.nSupported
nExtraParams == oem.nExtraParams
numGpios == oem.numGpios
bufsize == oem.bufsize             \* buffer.size ()
pbuf == oem.pbuf                   \* as an offset from &buffer[0]

Features == 0 .. FeaturesTotal - 1

\* camera->supported, camera->numParametersSupported
supported(f) == f \in oem.supportedFeatures
numParametersSupported(f) == oem.paramCount[f]

\* The camera at the call: any set of supported features, any parameter
\* counts, any number of GPIOs, getGpioRange succeeding or failing, and a
\* failing getGpioRange either leaving *numGpios alone or having written it.
ConfigStart ==
  \E features \in SUBSET Features, counts \in [Features -> 1 .. MaxParams],
     gpios \in 0 .. MaxGpios, ok \in BOOLEAN, written \in BOOLEAN :
    oem = [part |-> "config",
           supportedFeatures |-> features,
           paramCount |-> counts,
           gpioCount |-> gpios,
           gpioRangeOk |-> ok,
           gpioRangeWrites |-> written,
           pcConfig |-> "step1",
           featureId |-> 0,
           nSupported |-> 0,
           nExtraParams |-> 0,
           numGpios |-> 0,
           bufsize |-> 0,
           pbuf |-> 0]

\* A feature that is saved: supported and not the memory channel.
Saved(f) == supported(f) /\ f # FEATURE_MEMORY_CHANNEL

\* numGpios after camera->getGpioRange (&numGpios, ...)
getGpioRange ==
  IF oem.gpioRangeOk \/ oem.gpioRangeWrites THEN oem.gpioCount ELSE numGpios

\* Step 1: num of one feature.
Step1Num(f) ==
  IF f = FEATURE_GPIO /\ oem.gpioRangeOk THEN oem.gpioCount ELSE 1

\* Step 1, one turn of the loop.
ConfigCount ==
  /\ pcConfig = "step1"
  /\ featureId < FeaturesTotal
  /\ oem' = [oem EXCEPT
               !.featureId = @ + 1,
               !.numGpios = IF Saved(featureId) /\ featureId = FEATURE_GPIO
                              THEN getGpioRange ELSE @,
               !.nSupported = IF Saved(featureId)
                                THEN @ + Step1Num(featureId) ELSE @,
               !.nExtraParams =
                  IF Saved(featureId)
                    THEN @ + Step1Num(featureId)
                               * (numParametersSupported(featureId) - 1)
                    ELSE @]
  /\ UNCHANGED <<s_status, s_tail, s_frames, s_frameQueue, streaming,
                 delivered, frameBudget, raceBudget, pcMain, pcSource, pcSink,
                 srcFrame, srcFinish, snkFrame, snkFinish, snkTorn,
                 numFramesInFile, dataFile, partial, pushed, numWritten,
                 outOfOrder, keyPressed, terminalWrites, pushesAfterStop,
                 framesFreed, exitCode, uFrameNumber, gapBudget,
                 s_expectedFrameNumber, filePos, fileSize, cb, srcMismatch,
                 firstWritten>>

\* Step 2: the buffer is allocated.
ConfigAllocate ==
  /\ pcConfig = "step1"
  /\ featureId = FeaturesTotal
  /\ oem' = [oem EXCEPT
               !.pcConfig = "step3",
               !.bufsize = 3 * SizeofInt + nSupported * SizeofFeatureData
                             + nExtraParams * SizeofFloat]
  /\ UNCHANGED <<s_status, s_tail, s_frames, s_frameQueue, streaming,
                 delivered, frameBudget, raceBudget, pcMain, pcSource, pcSink,
                 srcFrame, srcFinish, snkFrame, snkFinish, snkTorn,
                 numFramesInFile, dataFile, partial, pushed, numWritten,
                 outOfOrder, keyPressed, terminalWrites, pushesAfterStop,
                 framesFreed, exitCode, uFrameNumber, gapBudget,
                 s_expectedFrameNumber, filePos, fileSize, cb, srcMismatch,
                 firstWritten>>

\* Step 3: magic number, descriptor count and feature count.
ConfigHeader ==
  /\ pcConfig = "step3"
  /\ oem' = [oem EXCEPT
               !.pcConfig = "step4",
               !.featureId = FeaturesTotal - 1,
               !.pbuf = 3 * SizeofInt]
  /\ UNCHANGED <<s_status, s_tail, s_frames, s_frameQueue, streaming,
                 delivered, frameBudget, raceBudget, pcMain, pcSource, pcSink,
                 srcFrame, srcFinish, snkFrame, snkFinish, snkTorn,
                 numFramesInFile, dataFile, partial, pushed, numWritten,
                 outOfOrder, keyPressed, terminalWrites, pushesAfterStop,
                 framesFreed, exitCode, uFrameNumber, gapBudget,
                 s_expectedFrameNumber, filePos, fileSize, cb, srcMismatch,
                 firstWritten>>

\* Bytes of one record of a feature.
RecordSize(f) ==
  SizeofFeatureData + (numParametersSupported(f) - 1) * SizeofFloat

\* Step 4: records written for one feature.
Step4Num(f) == IF f = FEATURE_GPIO THEN numGpios ELSE 1

\* Step 4, one turn of the loop, from the highest feature id down.
ConfigRecord ==
  /\ pcConfig = "step4"
  /\ featureId >= 0
  /\ oem' = [oem EXCEPT
               !.featureId = @ - 1,
               !.pbuf = IF Saved(featureId)
                          THEN @ + Step4Num(featureId) * RecordSize(featureId)
                          ELSE @]
  /\ UNCHANGED <<s_status, s_tail, s_frames, s_frameQueue, streaming,
                 delivered, frameBudget, raceBudget, pcMain, pcSource, pcSink,
                 srcFrame, srcFinish, snkFrame, snkFinish, snkTorn,
                 numFramesInFile, dataFile, partial, pushed, numWritten,
                 outOfOrder, keyPressed, terminalWrites, pushesAfterStop,
                 framesFreed, exitCode, uFrameNumber, gapBudget,
                 s_expectedFrameNumber, filePos, fileSize, cb, srcMismatch,
                 firstWritten>>

\* The loop of Step 4 ends.
ConfigRecorded ==
  /\ pcConfig = "step4"
  /\ featureId < 0
  /\ oem' = [oem EXCEPT !.pcConfig = "step5"]
  /\ UNCHANGED <<s_status, s_tail, s_frames, s_frameQueue, streaming,
                 delivered, frameBudget, raceBudget, pcMain, pcSource, pcSink,
                 srcFrame, srcFinish, snkFrame, snkFinish, snkTorn,
                 numFramesInFile, dataFile, partial, pushed, numWritten,
                 outOfOrder, keyPressed, terminalWrites, pushesAfterStop,
                 framesFreed, exitCode, uFrameNumber, gapBudget,
                 s_expectedFrameNumber, filePos, fileSize, cb, srcMismatch,
                 firstWritten>>

\* Step 5: ASSERT (pbuf == pEnd)
ConfigSanityCheck ==
  /\ pcConfig = "step5"
  /\ oem' = [oem EXCEPT
               !.pcConfig = IF pbuf = bufsize THEN "step6" ELSE "abort"]
  /\ UNCHANGED <<s_status, s_tail, s_frames, s_frameQueue, streaming,
                 delivered, frameBudget, raceBudget, pcMain, pcSource, pcSink,
                 srcFrame, srcFinish, snkFrame, snkFinish, snkTorn,
                 numFramesInFile, dataFile, partial, pushed, numWritten,
                 outOfOrder, keyPressed, terminalWrites, pushesAfterStop,
                 framesFreed, exitCode, uFrameNumber, gapBudget,
                 s_expectedFrameNumber, filePos, fileSize, cb, srcMismatch,
                 firstWritten>>

NextConfig ==
  \/ ConfigCount
  \/ ConfigAllocate
  \/ ConfigHeader
  \/ ConfigRecord
  \/ ConfigRecorded
  \/ ConfigSanityCheck

InitConfig ==
  /\ Start
  /\ CallbackUnused
  /\ ConfigStart
  /\ frameBudget = 0
  /\ raceBudget = 0
  /\ gapBudget = 0

SpecConfig == InitConfig /\ [][NextConfig]_vars

\* ------------------------------------------------------------ claims
\* sourceThread has issued PxLGetNextFrame into srcFrame and it has not
\* returned.
SourceFilling == pcSource \in {"first", "acquire"}
\* sinkThread has read the front entry and has not finished writing it.
SinkHolding == pcSink \in {"erase", "erase_load", "erase_store", "write"}

QueuedSlots == {s_frameQueue.elems[i] : i \in 0 .. (QueueSize - 1)}

\* C1: the slot sourceThread is filling is neither referenced by an entry of
\* s_frameQueue nor the slot sinkThread has popped and is still writing.
C1_FillingSlotIsFree ==
  SourceFilling =>
    /\ srcFrame \notin QueuedSlots
    /\ ~ (SinkHolding /\ snkFrame = srcFrame)

\* erase has moved the elements down and not yet lowered the end: the last
\* element is there twice until it does.
SinkMidErase == pcSink \in {"erase_load", "erase_store"}

\* C2: no two entries of s_frameQueue reference the same slot (outside the
\* middle of an erase).
C2_NoSlotAliasing ==
  ~ SinkMidErase =>
    \A i, j \in 0 .. (QueueSize - 1) :
      i # j => s_frameQueue.elems[i] # s_frameQueue.elems[j]

\* C3: the frames written so far are, in order, the first frames pushed:
\* nothing is written twice, skipped or written out of order.
C3_WrittenIsPrefixOfPushed ==
  /\ ~ outOfOrder
  /\ numWritten <= Len(pushed)

SinkRemovedNothing == numWritten = 0 /\ ~ partial /\ ~ SinkHolding

\* C5: with nothing removed by sinkThread, the fullness test that follows
\* the push of frame number BUFFER_SIZE - 3 sets STATUS_SINK_OVERRUN; the
\* step that sets STATUS_SINK_OVERRUN ends sourceThread, and an ended
\* sourceThread acquires and pushes nothing more.
C5_OverrunStep ==
  /\ (SinkRemovedNothing /\ Len(pushed) = BUFFER_SIZE - OVERRUN_MARGIN
        /\ pcSource = "check" /\ pcSource' # "check")
       => (s_status' = STATUS_SINK_OVERRUN /\ pcSource' = "done")
  /\ (s_status # STATUS_SINK_OVERRUN /\ s_status' = STATUS_SINK_OVERRUN)
       => pcSource' = "done"
  /\ pcSource = "done"
       => (pcSource' = "done" /\ delivered' = delivered /\ pushed' = pushed)

C5_BackpressureTrip == [][C5_OverrunStep]_vars

C5_Witness ==
  /\ s_status = STATUS_SINK_OVERRUN
  /\ pcSource = "done"
  /\ SinkRemovedNothing
  /\ Len(pushed) = BUFFER_SIZE - OVERRUN_MARGIN
  /\ delivered = BUFFER_SIZE - OVERRUN_MARGIN + 2

\* C6: sourceThread's push and sinkThread's empty-test / read-front / erase
\* never overlap.
C6_QueueOpsExclusive == ~ (SourceInQueueOp /\ SinkInQueueOp)

\* C7: once s_status is not STATUS_RUNNING no step sets it to STATUS_RUNNING.
C7_NeverBackToRunning ==
  [][s_status # STATUS_RUNNING => s_status' # STATUS_RUNNING]_vars

C7_Witness ==
  /\ s_status # STATUS_RUNNING
  /\ pcMain = "done" /\ pcSource = "done" /\ pcSink = "done"
  /\ numWritten > 0

\* C8: s_status is assigned a terminal value at most once.
C8_OneTerminalAssignment == terminalWrites <= 1

\* C9 as stated: no push_back ends after s_status has left STATUS_RUNNING.
C9_NoPushAfterStop == pushesAfterStop = 0

\* C9 as amended: at most one push_back ends after s_status has left
\* STATUS_RUNNING (that of the iteration under way), and none once
\* sourceThread has ended.
C9_AtMostOnePushAfterStop ==
  /\ pushesAfterStop <= 1
  /\ pcSource = "done" => ~ SourceInQueueOp

C9_Witness == pushesAfterStop = 1 /\ pcSource = "done"

\* C10: when sinkThread closes the file after the key press, the file holds
\* whole frames only.
C10_ClosedWithWholeFrames ==
  [][(keyPressed /\ dataFile = "open" /\ dataFile' = "closed") => ~ partial']_vars

\* C10, the part about termination: after the key press both threads end.
C10_BothLoopsEnd == keyPressed ~> (pcSource = "done" /\ SinkEnded)

\* sourceThread holds a slot of the pool: PxLGetNextFrame is filling it, or
\* the filled slot is on its way into s_frameQueue.
SourceUsesSlot == pcSource \in {"first", "acquire", "check", "push", "push_end"}

\* C11: once main has deleted the pool no thread is filling, enqueueing,
\* popping or writing from a slot.
C11_NoUseAfterFree == framesFreed => ~ (SourceUsesSlot \/ SinkHolding)

\* One of the four fatal conditions is met in this step: the initial acquire
\* fails, fopen returns null, fwrite writes short, the queue reaches the
\* overrun margin.
FatalStep ==
  \/ pcSource = "first" /\ pcSource' = "done"
  \/ pcSink = "open" /\ pcSink' = "cleanup"
  \/ pcSink = "write" /\ pcSink' = "cleanup"
  \/ pcSource = "check" /\ pcSource' = "done"

FatalStatus == s_status \in {STATUS_ERROR, STATUS_SINK_OVERRUN}

\* C12: each fatal condition stores a terminal value in s_status, and from
\* then on both sourceThread and sinkThread eventually end, also when the
\* other thread is blocked in PxLGetNextFrame at that moment.
C12_FatalStopsBoth ==
  /\ [][FatalStep => s_status' \in {STATUS_ERROR, STATUS_SINK_OVERRUN}]_vars
  /\ FatalStatus ~> (pcSource = "done" /\ SinkEnded)

\* sinkThread has just flagged a short write while sourceThread is inside a
\* PxLGetNextFrame that no frame will end.
C12_Witness ==
  /\ s_status = STATUS_ERROR
  /\ partial
  /\ pcSink = "cleanup"
  /\ pcSource = "acquire"
  /\ streaming
  /\ delivered = frameBudget

\* The frame number the callback has just been called with, and the number
\* it expected on entry (the first frame seeds it with its own number).
CallbackStep == Len(cbHistory') = Len(cbHistory) + 1
Received == cbHistory'[Len(cbHistory')]
Expected == IF gReceivedFirstFrame THEN gExpectedFrameNum ELSE Received

\* C13: a frame numbered at or above the expected number raises
\* gLostFrameCount by exactly received - expected; the delivery 1,2,4,5
\* leaves it at 1.
C13_LostCountRises ==
  /\ [][(CallbackStep /\ Received >= Expected)
          => gLostFrameCount' = gLostFrameCount + (Received - Expected)]_vars
  /\ [](cbHistory = <<1, 2, 4, 5>> => gLostFrameCount = 1)

C13_Witness == cbHistory = <<1, 2, 4, 5>> /\ gLostFrameCount = 1

\* The frames delivered so far are distinct, leave no number out and began
\* with the smallest of them.
Range(seq) == {seq[i] : i \in 1 .. Len(seq)}
GapFreeFromFirst(seq) ==
  /\ Len(seq) > 0
  /\ Cardinality(Range(seq)) = Len(seq)
  /\ Range(seq) = seq[1] .. (seq[1] + Len(seq) - 1)

\* C14: a frame numbered below the expected number lowers gLostFrameCount
\* by 1; once a gap-free set of distinct frame numbers, the smallest first,
\* has been delivered in any order, gLostFrameCount is 0.
C14_LateFramesCancel ==
  /\ [][(CallbackStep /\ Received < Expected)
          => gLostFrameCount' = gLostFrameCount - 1]_vars
  /\ [](GapFreeFromFirst(cbHistory) => gLostFrameCount = 0)

C14_Witness == cbHistory = <<1, 3, 2, 4>> /\ gLostFrameCount = 0

\* C15: the frames written since the last rewind number fewer than
\* MAX_IMAGES whenever sinkThread is between writes, the file position is
\* that number of frames from the start, and the file is never longer than
\* MAX_IMAGES frames.
C15_FileBounded ==
  /\ numFramesInFile < MAX_IMAGES
  /\ filePos = numFramesInFile
  /\ fileSize <= MAX_IMAGES
  /\ numWritten >= MAX_IMAGES => fileSize = MAX_IMAGES

\* More than MAX_IMAGES frames have been written: the file has been rewound
\* and is being overwritten from its start.
C15_Witness ==
  /\ numWritten = MAX_IMAGES + 1
  /\ numFramesInFile = 1
  /\ filePos = 1
  /\ fileSize = MAX_IMAGES

\* C16: main returns 0 when a key press ended the run, and a non-zero code
\* when it came to Cleanup any other way (no camera, initialisation or
\* stream start failed, s_status found at STATUS_ERROR or STATUS_SINK_OVERRUN).
C16_ExitCodes ==
  pcMain = "done" =>
    /\ keyPressed => exitCode = 0
    /\ ~ keyPressed => exitCode # 0

TakesSlot == pcSource = "take" /\ pcSource' # "take"
AcquireFails == pcSource = "acquire" /\ pcSource' = "loop"

\* C18: pFrame is the slot s_tail named when the iteration began; a failed
\* acquire puts s_tail back on that slot, also from 0 back to 15, leaves
\* s_frameQueue, s_status and s_expectedFrameNumber as they are and goes
\* back to the loop test; a slot is on its way to push_back only with the
\* frame a successful acquire of the same iteration put in it.
C18_FailedAcquireUndone ==
  /\ [][TakesSlot => srcFrame' = s_tail]_vars
  /\ [][AcquireFails
          => /\ s_tail' = srcFrame
             /\ s_frameQueue' = s_frameQueue
             /\ s_status' = s_status
             /\ s_expectedFrameNumber' = s_expectedFrameNumber
             /\ pushed' = pushed]_vars
  /\ [](pcSource \in {"check", "push"} => s_frames[srcFrame] = delivered)

\* The acquire into slot 15 has failed after the cursor had wrapped to 0, and
\* more frames are to come.
C18_Witness ==
  /\ pcSource = "loop"
  /\ srcFrame = BUFFER_SIZE - 1
  /\ s_tail = BUFFER_SIZE - 1
  /\ s_status = STATUS_RUNNING
  /\ CanDeliver

\* sinkThread tests its loop condition with s_status no longer RUNNING.
SinkSeesStop ==
  pcSink = "loop" /\ pcSink' # "loop" /\ s_status # STATUS_RUNNING
SinkExited == pcSink \in {"cleanup", "done", "fault"}

\* C19: on finding s_status other than STATUS_RUNNING sinkThread goes to
\* Cleanup with the queue as it is, and from there on it removes and writes
\* nothing.
C19_SinkLeavesQueue ==
  /\ [][SinkSeesStop
          => /\ pcSink' = "cleanup"
             /\ s_frameQueue' = s_frameQueue
             /\ numWritten' = numWritten]_vars
  /\ [][SinkExited
          => /\ SinkExited'
             /\ numWritten' = numWritten
             /\ QueueSize' >= QueueSize]_vars

\* Both threads have ended, no queue operation ever overlapped another, and
\* the queue still holds the frames pushed and not written.
C19_Witness ==
  /\ pcSink = "done"
  /\ pcSource = "done"
  /\ s_status = STATUS_USER_STOPPED
  /\ raceBudget = MaxRaces
  /\ QueueSize > 0
  /\ numWritten + QueueSize = Len(pushed)
  /\ numWritten > 0

\* PxLGetNextFrame returns a frame, at Step 1 or in the loop.
FirstAcquired == pcSource = "first" /\ pcSource' = "loop"
LoopAcquired == pcSource = "acquire" /\ pcSource' = "check"

\* C20: a successful acquire, the initial one included, leaves
\* s_expectedFrameNumber at the received frame number + 1, whatever it was
\* before; nothing else changes it.
C20_ExpectedFollowsReceived ==
  [][/\ (FirstAcquired \/ LoopAcquired)
          => s_expectedFrameNumber' = uFrameNumber' + 1
     /\ ~ (FirstAcquired \/ LoopAcquired)
          => s_expectedFrameNumber' = s_expectedFrameNumber]_vars

\* The loop has received a frame numbered above the expected number and
\* one numbered below it, and the numbers are back in step with the frames.
C20_Witness ==
  /\ pcSource = "check"
  /\ gapBudget = 0
  /\ uFrameNumber = delivered
  /\ s_expectedFrameNumber = uFrameNumber + 1
  /\ delivered = GapFrames

\* sourceThread takes a step.
SourceStep == pcSource' # pcSource

\* C21: a frame acquired in the loop with a number other than the expected
\* one leaves s_status as it was, goes on to the fullness test and, the
\* queue being below the threshold, is appended to s_frameQueue as any
\* frame is, with s_status still unchanged.
C21_GapFramePushed ==
  [][/\ (LoopAcquired /\ srcMismatch')
          => s_status' = s_status
     /\ (SourceStep /\ pcSource = "check" /\ srcMismatch /\ ~ QueueNearFull)
          => (pcSource' = "push" /\ s_status' = s_status)
     /\ (SourceStep /\ pcSource = "push" /\ srcMismatch)
          => /\ s_frameQueue'.elems[QueueSize] = srcFrame
             /\ pushed' = Append(pushed, delivered)
             /\ s_status' = s_status
     /\ (SourceStep /\ pcSource = "push_end" /\ srcMismatch)
          => /\ QueueSize' = srcFinish + 1
             /\ s_status' = s_status]_vars

\* A frame whose number was not the expected one has been stored in the
\* queue, after an earlier push, with the status still Streaming.
C21_Witness ==
  /\ pcSource = "push_end"
  /\ srcMismatch
  /\ Len(pushed) >= 2
  /\ pushed[Len(pushed)] = delivered
  /\ s_frameQueue.elems[srcFinish] = srcFrame
  /\ s_status = STATUS_RUNNING

\* The initial PxLGetNextFrame of sourceThread returns an error.
FirstAcquireFails ==
  pcSource = "first" /\ SourceStep /\ delivered' = delivered

\* C22: a failed initial acquire sets STATUS_ERROR and ends sourceThread
\* with s_expectedFrameNumber untouched; the thread never runs again, and
\* after such an exit the expected number is still unseeded and nothing has
\* been pushed onto s_frameQueue.
C22_InitialFailureEndsSource ==
  /\ [][/\ FirstAcquireFails
             => /\ s_status' = STATUS_ERROR
                /\ pcSource' = "done"
                /\ s_expectedFrameNumber' = s_expectedFrameNumber
        /\ pcSource = "done" => pcSource' = "done"]_vars
  /\ []((pcSource = "done" /\ delivered = 0)
          => /\ s_expectedFrameNumber = 0
             /\ pushed = <<>>
             /\ QueueSize = 0)

\* The initial acquire has failed and sinkThread, which had opened its
\* file, has left as well.
C22_Witness ==
  /\ pcSource = "done"
  /\ delivered = 0
  /\ terminalWrites > 0
  /\ dataFile = "closed"
  /\ pcSink = "done"

\* sinkThread executes the fclose of its Cleanup label.
SinkCallsFclose == pcSink = "cleanup" /\ pcSink' # pcSink

\* C28: sinkThread calls fclose only on a handle that fopen returned
\* successfully; after a failed fopen it exits with no file operation.
C28_FcloseOnOpenHandle ==
  [][SinkCallsFclose => dataFile = "open"]_vars

PairwiseDistinct(h) ==
  \A i, j \in 1 .. Len(h) : i # j => h[i] # h[j]

\* C27: as long as the frame numbers delivered to the callback are pairwise
\* distinct, gLostFrameCount is not negative.
C27_NegativeOnlyIfDuplicate ==
  PairwiseDistinct(cbHistory) => gLostFrameCount >= 0

\* No call of FrameCallbackFunction is between its lock and its unlock.
NoCallbackRunning ==
  gMutex = 0 /\ \A t \in CbThreads : cbPc[t] \in {"idle", "lock"}

\* C30: whenever a callback has completed and none is running,
\* gLostFrameCount = gExpectedFrameNum - (first frame number received)
\* - gFrameCount, whatever numbers were delivered and however the calls of
\* the threads were interleaved.
C30_LostCountIdentity ==
  (NoCallbackRunning /\ cbHistory # <<>>)
    => gLostFrameCount = gExpectedFrameNum - cbHistory[1] - gFrameCount

\* Callbacks have completed, one of them for a frame that came late and one
\* for a frame that came after a gap, and a call on another thread is about
\* to take the mutex.
C30_Witness ==
  /\ NoCallbackRunning
  /\ gFrameCount >= 3
  /\ \E i \in 2 .. Len(cbHistory) : cbHistory[i] < cbHistory[i - 1]
  /\ gLostFrameCount > 0
  /\ \E t \in CbThreads : cbPc[t] = "lock"

\* rebuildCameraSelectCombo is in its loop over m_connectedCameraList.
RebuildReadsList == pcGtk \in {"rb_loop", "rb_compare", "rb_push"}

\* C23: the GTK thread reads m_connectedCameraList, and scanThread reads and
\* rewrites it, only while holding m__CSConnectedCameraList; in particular
\* rebuildCameraSelectCombo is never in its loop over the list while
\* scanThread is clearing, resizing or filling it.
C23_ListAccessUnderMutex ==
  /\ (RebuildReadsList \/ pcGtk = "selected")
       => m__CSConnectedCameraList = "gtk"
  /\ (ScanWritesList \/ pcScan \in {"count", "decide"})
       => m__CSConnectedCameraList = "scan"
  /\ ~ (RebuildReadsList /\ ScanWritesList)

\* rebuildCameraSelectCombo returns.
RebuildEnds == pcGtk = "rb_end" /\ pcGtk' = "loop"

\* The Design Note of rebuildCameraSelectCombo: an empty list with no camera
\* selected, or the selected camera first and only other cameras after it.
ComboListInOrder ==
  \/ m_comboCameraList = <<>> /\ m_selectedCamera = 0
  \/ /\ m_comboCameraList # <<>>
     /\ m_comboCameraList[1] = m_selectedCamera
     /\ \A i \in 2 .. Len(m_comboCameraList) :
          m_comboCameraList[i] # m_selectedCamera

\* C25: when rebuildCameraSelectCombo returns, m_comboCameraList is empty
\* with m_selectedCamera 0, or starts with m_selectedCamera and holds it
\* nowhere else.
C25_ComboListAfterRebuild == [][RebuildEnds => ComboListInOrder']_vars

\* The idle callback RefreshComplete runs.
RefreshCompleteRuns ==
  /\ idleQueue # <<>>
  /\ Head(idleQueue) = "RefreshComplete"
  /\ idleQueue' = Tail(idleQueue)

\* No RefreshComplete is waiting in the idle queue.
NoRefreshCompleteQueued ==
  \A i \in 1 .. Len(idleQueue) : idleQueue[i] # "RefreshComplete"

\* C24: RefreshComplete never decrements the counter at 0, and with the
\* tab active and every queued RefreshComplete run the counter is 0.
C24_RefreshCountSettles ==
  /\ [][RefreshCompleteRuns => m_numRefreshRequestsOutstanding > 0]_vars
  /\ []((activeTab /\ NoRefreshCompleteQueued)
          => m_numRefreshRequestsOutstanding = 0)

\* C26: at the Step 5 assertion of WriteConfigFile the bytes filled by
\* Step 4 equal the buffer size computed in Steps 1 and 2.
C26_FilledEqualsBufsize == pcConfig = "step5" => pbuf = bufsize
====
